---------------------------- MODULE Spec2Model ----------------------------
(***************************************************************************)
(* A model of crudite: the operation log (src/src/opset.rs), the JSON      *)
(* document tree (src/src/json/tree.rs) and its sequence engine            *)
(* (src/src/tree/sequence.rs).                                             *)
(*                                                                         *)
(* Option<T> is modelled as a set with at most one element: {} is None and *)
(* {x} is Some(x).                                                         *)
(***************************************************************************)
EXTENDS Integers, Sequences, FiniteSets, TLC

VARIABLES
    tree,       \* Tree<Id>: [next_node, root, orphans, id_to_node, nodes]
    last,       \* history: the last primitive called and what it returned
    steps,      \* history: the number of primitive calls made
    crashed,    \* a primitive of the tree has panicked
    splitLen,   \* the build's SPLIT_LEN
    joinLen,    \* the build's JOIN_LEN
    log,        \* Opset<TestEdit, Vec<usize>>: [ops, states, cache_gap]
    received,   \* history: the set of operations handed to the log so far
    arrival,    \* history: facts about how the operations arrived
    opCrashed,  \* an expect_err / unwrap of the log has panicked
    batches,    \* the two operation batches A and B (DocOp)
    docs        \* two replicas: Opset<DocOp, Tree<Id>>, and what reached each

opsetVars == <<log, received, arrival, opCrashed>>

treeVars == <<tree, last, steps, crashed, splitLen, joinLen>>

docVars == <<batches, docs>>

vars == <<treeVars, opsetVars, docVars>>

-----------------------------------------------------------------------------
(* Bounds of the operation-log model.                                      *)
MaxTs == 3
MaxVal == 2
MaxOps == 4
MaxBatch == 2
MaxGap == 2

-----------------------------------------------------------------------------
(* Generic helpers on sequences.                                           *)

InsertAt(s, i, x) == SubSeq(s, 1, i) \o <<x>> \o SubSeq(s, i + 1, Len(s))

Last(s) == s[Len(s)]

SeqRange(s) == {s[i] : i \in 1..Len(s)}

Front(s) == SubSeq(s, 1, Len(s) - 1)

-----------------------------------------------------------------------------
(* src/src/json/tree.rs: the data model.                                   *)

MaxId == 3
MaxSteps == 4
SmallSplitLen == 2
MaxMove == 2
JoinSplitLen == 4
MaxJoinId == 6
MaxJoinSteps == 6

Ids == 0..MaxId
Keys == {"k", "k2"}
Chars == {"a", "e2"}
RootKinds == {"Object", "String", "Array"}

\* char::len_utf8: "a" is U+0061 (1 byte), "e2" is U+00E9 (2 bytes), "e3" is
\* U+20AC (3 bytes), "e4" is U+1F600 (4 bytes)
LenUtf8(c) ==
    CASE c = "a" -> 1
      [] c = "e2" -> 2
      [] c = "e3" -> 3
      [] OTHER -> 4

\* the UTF-8 encoding of c; byte k of character c is <<c, k>>
CharBytes(c) == [k \in 1..LenUtf8(c) |-> <<c, k>>]

\* enum Child
ChildTrue == [tag |-> "True", v |-> 0]
ChildNull == [tag |-> "Null", v |-> 0]
ChildInt(i) == [tag |-> "Int", v |-> i]
ChildCollection(n) == [tag |-> "Collection", v |-> n]

\* enum Value
ValueUnset == [tag |-> "Unset", v |-> 0]
ValueTrue == [tag |-> "True", v |-> 0]
ValueInt(i) == [tag |-> "Int", v |-> i]
ValueRef(kind, id) == [tag |-> kind, v |-> id]
ValuePanic == [tag |-> "Panic", v |-> 0]

IsRef(value) == value.tag \in {"Object", "Array", "String"}

Put(f, k, x) == [y \in DOMAIN f \cup {k} |-> IF y = k THEN x ELSE f[y]]

Del(f, k) == [y \in DOMAIN f \ {k} |-> f[y]]

EmptyMap == [y \in {} |-> 0]

\* struct Node / enum NodeData, one record shape for all variants
MkNode(kind, parent, id, start, end, prev, next) ==
    [kind |-> kind, parent |-> parent, id |-> id, items |-> EmptyMap,
     start |-> start, end |-> end, prev |-> prev, next |-> next,
     contents |-> <<>>, ids |-> <<>>]

IsSegment(node) == node.kind \in {"StringSegment", "ArraySegment"}

\* Node::segment_is_container
IsContainer(node) == node.kind \in {"String", "Array"}

SegmentKindOf(kind) == IF kind = "String" THEN "StringSegment" ELSE "ArraySegment"

\* a step's outcome: the tree as the call left it, Ok / the TreeError /
\* Panic, and the returned value where the primitive returns one
R(t, res, val) == [t |-> t, res |-> res, val |-> val]

\* Tree::new
TreeNew(root_id) ==
    [next_node |-> 0, root |-> root_id, orphans |-> {},
     id_to_node |-> EmptyMap, nodes |-> EmptyMap]

\* Tree::next_id: the tree with the counter advanced (the id is t.next_node)
NextId(t) == [t EXCEPT !.next_node = @ + 1]

\* a constructor that does not look whether the identity is in use
ConstructSimpleOverwrites(t, id, node) ==
    R([NextId(t) EXCEPT
          !.id_to_node = Put(@, id, t.next_node),
          !.orphans = @ \cup {t.next_node},
          !.nodes = Put(@, t.next_node, node)],
      "Ok", ValueUnset)

\* Tree::construct_simple
ConstructSimple(t, id, node) ==
    IF id \in DOMAIN t.id_to_node
    THEN R(t, "DuplicateId", ValueUnset)
    ELSE R([NextId(t) EXCEPT
               !.id_to_node = Put(@, id, t.next_node),
               !.orphans = @ \cup {t.next_node},
               !.nodes = Put(@, t.next_node, node)],
           "Ok", ValueUnset)

\* Tree::construct_object
ConstructObject(t, id) ==
    ConstructSimple(t, id, MkNode("Object", {}, {id}, 0, 0, 0, 0))

\* Tree::construct_string / Tree::construct_array: the segment's node id is
\* taken first, then the container is constructed, then the segment stored
ConstructSequence(t, id, kind) ==
    LET segment_id == t.next_node
        r == ConstructSimple(NextId(t), id,
                 MkNode(kind, {}, {id}, segment_id, segment_id, 0, 0))
        container_id == segment_id + 1
    IN  IF r.res # "Ok" THEN r
        ELSE R([r.t EXCEPT !.nodes = Put(@, segment_id,
                    MkNode(SegmentKindOf(kind), {container_id}, {}, 0, 0,
                           container_id, container_id))],
               "Ok", ValueUnset)

ConstructString(t, id) == ConstructSequence(t, id, "String")

ConstructArray(t, id) == ConstructSequence(t, id, "Array")

\* a root left in the orphan set by its constructor
NewWithRootOrphaned(kind, root_id) ==
    IF kind = "Object" THEN ConstructObject(TreeNew(root_id), root_id).t
    ELSE ConstructSequence(TreeNew(root_id), root_id, kind).t

\* Tree::new_with_string_root / new_with_object_root / new_with_array_root
NewWithRoot(kind, root_id) ==
    LET r == IF kind = "Object" THEN ConstructObject(TreeNew(root_id), root_id)
             ELSE ConstructSequence(TreeNew(root_id), root_id, kind)
    IN  [r.t EXCEPT !.orphans = {}]

\* Tree::id_to_node: Option of the node id
IdToNode(t, id) == IF id \in DOMAIN t.id_to_node THEN {t.id_to_node[id]} ELSE {}

The(opt) == CHOOSE x \in opt : TRUE

-----------------------------------------------------------------------------
(* src/src/json/tree.rs: orphans, reparenting, object assignment, queries. *)

SetToSeq(S) ==
    CHOOSE s \in [1..Cardinality(S) -> S] : \A x \in S : \E i \in DOMAIN s : s[i] = x

\* the node ids of the Child::Collection entries of a set of children
CollectionsOf(children) == {c.v : c \in {d \in children : d.tag = "Collection"}}

\* the identities id_to_node.remove(..).unwrap() is called on when `node` is
\* deleted
IdsOf(node) ==
    IF IsSegment(node) THEN {node.ids[i].id : i \in 1..Len(node.ids)} ELSE node.id

\* what Tree::delete pushes on its queue for a removed node
DeletePushes(node) ==
    CASE node.kind = "Object" ->
             SetToSeq(CollectionsOf({node.items[k] : k \in DOMAIN node.items}))
      [] IsContainer(node) -> <<node.start>>
      [] node.kind = "StringSegment" -> <<node.next>>
      [] OTHER ->
             <<node.next>> \o
             SetToSeq(CollectionsOf({node.contents[i] : i \in 1..Len(node.contents)}))

\* Tree::delete: the loop over the queue (a stack, popped at its end)
RECURSIVE DeleteLoop(_, _)
DeleteLoop(t, queue) ==
    IF queue = <<>> THEN [t |-> t, panic |-> FALSE]
    ELSE LET item == Last(queue)
             rest == Front(queue)
         IN  IF item \notin DOMAIN t.nodes THEN DeleteLoop(t, rest)
             ELSE LET node == t.nodes[item]
                      t1 == [t EXCEPT !.nodes = Del(@, item)]
                  IN  IF ~(IdsOf(node) \subseteq DOMAIN t.id_to_node)
                      THEN [t |-> t1, panic |-> TRUE]
                      ELSE DeleteLoop(
                               [t1 EXCEPT !.id_to_node =
                                   [y \in DOMAIN @ \ IdsOf(node) |-> @[y]]],
                               rest \o DeletePushes(node))

Delete(t, item) == DeleteLoop(t, <<item>>)

RECURSIVE DeleteEach(_, _)
DeleteEach(t, orphans) ==
    IF orphans = <<>> THEN [t |-> t, panic |-> FALSE]
    ELSE LET r == Delete(t, Head(orphans))
         IN  IF r.panic THEN r ELSE DeleteEach(r.t, Tail(orphans))

\* a sweep that deletes the orphans and keeps the orphan set as it was
DeleteOrphansKeepsSet(t) ==
    LET r == DeleteEach(t, SetToSeq(t.orphans))
    IN  R(r.t, IF r.panic THEN "Panic" ELSE "Ok", ValueUnset)

\* Tree::delete_orphans
DeleteOrphans(t) ==
    LET r == DeleteEach(t, SetToSeq(t.orphans))
    IN  IF r.panic THEN R(r.t, "Panic", ValueUnset)
        ELSE R([r.t EXCEPT !.orphans = {}], "Ok", ValueUnset)

\* a move_to_orphan that leaves the parent link in place
MoveToOrphanKeepsParent(t, item) ==
    IF item \notin DOMAIN t.nodes THEN R(t, "Panic", ValueUnset)
    ELSE R([t EXCEPT !.orphans = @ \cup {item}], "Ok", ValueUnset)

\* Tree::move_to_orphan (indexing a missing node panics)
MoveToOrphan(t, item) ==
    IF item \notin DOMAIN t.nodes THEN R(t, "Panic", ValueUnset)
    ELSE R([t EXCEPT !.nodes[item].parent = {}, !.orphans = @ \cup {item}],
           "Ok", ValueUnset)

\* the while loop of reparent_item: walks parent links upward from `this`
RECURSIVE CycleWalk(_, _, _)
CycleWalk(t, item, this) ==
    IF this = item THEN "EditWouldCauseCycle"
    ELSE IF this \notin DOMAIN t.nodes THEN "Panic"
    ELSE IF t.nodes[this].parent = {} THEN "Ok"
    ELSE CycleWalk(t, item, The(t.nodes[this].parent))

\* a reparent_item that forgets the upward walk
ReparentItemNoWalk(t, item, parent) ==
    IF t.nodes[item].parent # {} THEN R(t, "NodeAlreadyHadParent", ValueUnset)
    ELSE IF item \notin t.orphans THEN R(t, "Panic", ValueUnset)
    ELSE R([t EXCEPT !.orphans = @ \ {item}, !.nodes[item].parent = {parent}],
           "Ok", ValueUnset)

\* a reparent_item that walks before it looks at the item's own parent
ReparentItemWalkFirst(t, item, parent) ==
    IF CycleWalk(t, item, parent) # "Ok"
    THEN R(t, CycleWalk(t, item, parent), ValueUnset)
    ELSE IF t.nodes[item].parent # {} THEN R(t, "NodeAlreadyHadParent", ValueUnset)
    ELSE IF item \notin t.orphans THEN R(t, "Panic", ValueUnset)
    ELSE R([t EXCEPT !.orphans = @ \ {item}, !.nodes[item].parent = {parent}],
           "Ok", ValueUnset)

\* Tree::reparent_item
ReparentItem(t, item, parent) ==
    IF t.nodes[item].parent # {} THEN R(t, "NodeAlreadyHadParent", ValueUnset)
    ELSE IF CycleWalk(t, item, parent) # "Ok"
    THEN R(t, CycleWalk(t, item, parent), ValueUnset)
    ELSE IF item \notin t.orphans THEN R(t, "Panic", ValueUnset)
    ELSE R([t EXCEPT !.orphans = @ \ {item}, !.nodes[item].parent = {parent}],
           "Ok", ValueUnset)

\* a conversion that makes a child of Unset too
ValueToChildKeepsUnset(t, value) ==
    CASE IsRef(value) ->
             IF IdToNode(t, value.v) = {}
             THEN [res |-> "UnknownId", child |-> {}]
             ELSE [res |-> "Ok", child |-> {ChildCollection(t.id_to_node[value.v])}]
      [] OTHER -> [res |-> "Ok", child |-> {[tag |-> value.tag, v |-> value.v]}]

\* Tree::value_to_child: [res, child], child an Option<Child>
ValueToChild(t, value) ==
    CASE IsRef(value) ->
             IF IdToNode(t, value.v) = {}
             THEN [res |-> "UnknownId", child |-> {}]
             ELSE [res |-> "Ok", child |-> {ChildCollection(t.id_to_node[value.v])}]
      [] value.tag = "Unset" -> [res |-> "Ok", child |-> {}]
      [] OTHER -> [res |-> "Ok", child |-> {[tag |-> value.tag, v |-> value.v]}]

\* Tree::get_type
GetType(t, id) ==
    IF IdToNode(t, id) = {} THEN "UnknownId"
    ELSE IF t.id_to_node[id] \notin DOMAIN t.nodes THEN "Panic"
    ELSE CASE t.nodes[t.id_to_node[id]].kind = "StringSegment" -> "Character"
           [] t.nodes[t.id_to_node[id]].kind = "ArraySegment" -> "ArrayEntry"
           [] OTHER -> t.nodes[t.id_to_node[id]].kind

\* Tree::get_parent: [res, parent], parent an Option<Id>
GetParent(t, id) ==
    IF IdToNode(t, id) = {} THEN [res |-> "UnknownId", parent |-> {}]
    ELSE IF t.id_to_node[id] \notin DOMAIN t.nodes
    THEN [res |-> "Panic", parent |-> {}]
    ELSE LET node == t.nodes[t.id_to_node[id]]
         IN  IF node.parent = {} THEN [res |-> "Ok", parent |-> {}]
             ELSE IF The(node.parent) \notin DOMAIN t.nodes
                     \/ t.nodes[The(node.parent)].id = {}
             THEN [res |-> "Panic", parent |-> {}]
             ELSE [res |-> "Ok", parent |-> t.nodes[The(node.parent)].id]

\* Tree::child_to_value
ChildToValue(t, child) ==
    IF child = {} THEN ValueUnset
    ELSE IF The(child).tag # "Collection"
    THEN [tag |-> The(child).tag, v |-> The(child).v]
    ELSE IF The(child).v \notin DOMAIN t.nodes \/ t.nodes[The(child).v].id = {}
    THEN ValuePanic
    ELSE LET id == The(t.nodes[The(child).v].id)
         IN  IF GetType(t, id) \in {"String", "Object", "Array"}
             THEN ValueRef(GetType(t, id), id)
             ELSE ValuePanic

\* an assignment that hands back the value it has just stored
AssignIntoReturnsNew(t, object_node_id, key, child) ==
    LET node == t.nodes[object_node_id]
        old == IF key \in DOMAIN node.items THEN {node.items[key]} ELSE {}
        t1 == [t EXCEPT !.nodes[object_node_id].items =
                  IF child # {} THEN Put(@, key, The(child)) ELSE Del(@, key)]
        m == IF old # {} /\ The(old).tag = "Collection"
             THEN MoveToOrphan(t1, The(old).v)
             ELSE R(t1, "Ok", ValueUnset)
    IN  IF node.kind # "Object" THEN R(t, "UnexpectedNodeType", ValueUnset)
        ELSE IF m.res # "Ok" THEN m
        ELSE IF ChildToValue(m.t, child) = ValuePanic THEN R(m.t, "Panic", ValueUnset)
        ELSE R(m.t, "Ok", ChildToValue(m.t, child))

\* an assignment that leaves a key alone once it holds a value
AssignIntoKeepsFirst(t, object_node_id, key, child) ==
    LET node == t.nodes[object_node_id]
        old == IF key \in DOMAIN node.items THEN {node.items[key]} ELSE {}
        t1 == [t EXCEPT !.nodes[object_node_id].items =
                  IF old # {} THEN @
                  ELSE IF child # {} THEN Put(@, key, The(child)) ELSE @]
    IN  IF node.kind # "Object" THEN R(t, "UnexpectedNodeType", ValueUnset)
        ELSE R(t1, "Ok", ValueUnset)

\* the match of object_assign on the target node, after the reparenting
AssignInto(t, object_node_id, key, child) ==
    LET node == t.nodes[object_node_id]
        old == IF key \in DOMAIN node.items THEN {node.items[key]} ELSE {}
        t1 == [t EXCEPT !.nodes[object_node_id].items =
                  IF child # {} THEN Put(@, key, The(child)) ELSE Del(@, key)]
        m == IF old # {} /\ The(old).tag = "Collection"
             THEN MoveToOrphan(t1, The(old).v)
             ELSE R(t1, "Ok", ValueUnset)
    IN  IF node.kind # "Object" THEN R(t, "UnexpectedNodeType", ValueUnset)
        ELSE IF m.res # "Ok" THEN m
        ELSE IF ChildToValue(m.t, old) = ValuePanic THEN R(m.t, "Panic", ValueUnset)
        ELSE R(m.t, "Ok", ChildToValue(m.t, old))

\* Tree::object_assign
ObjectAssign(t, object, key, value) ==
    LET vc == ValueToChild(t, value)
        object_node_id == t.id_to_node[object]
        rp == IF vc.child # {} /\ The(vc.child).tag = "Collection"
              THEN ReparentItem(t, The(vc.child).v, object_node_id)
              ELSE R(t, "Ok", ValueUnset)
    IN  IF vc.res # "Ok" THEN R(t, vc.res, ValueUnset)
        ELSE IF IdToNode(t, object) = {} THEN R(t, "UnknownId", ValueUnset)
        ELSE IF rp.res # "Ok" THEN rp
        ELSE AssignInto(rp.t, object_node_id, key, vc.child)

\* ObjectRef::get (src/src/json/value.rs)
ObjectGet(t, object, key) ==
    IF IdToNode(t, object) = {} THEN [res |-> "UnknownId", val |-> ValueUnset]
    ELSE LET node == t.nodes[t.id_to_node[object]]
         IN  IF node.kind # "Object"
             THEN [res |-> "UnexpectedNodeType", val |-> ValueUnset]
             ELSE [res |-> "Ok",
                   val |-> ChildToValue(t, IF key \in DOMAIN node.items
                                           THEN {node.items[key]} ELSE {})]

-----------------------------------------------------------------------------
(* src/src/tree/sequence.rs: the sequence engine, over string and array    *)
(* segments alike (the per-kind part is the closure the tree passes in:    *)
(* src/src/json/tree.rs, insert_character .. delete_list_item).            *)

SPLIT_LEN == 1024
JOIN_LEN == 511

\* the position of lookup_id in an ids list (1-based), as an Option
IndexOfId(ids, lookup_id) ==
    IF \E i \in 1..Len(ids) : ids[i].id = lookup_id
    THEN {CHOOSE i \in 1..Len(ids) :
              ids[i].id = lookup_id /\ \A j \in 1..(i - 1) : ids[j].id # lookup_id}
    ELSE {}

\* a lookup that no longer knows the identity of a tombstone
LookupIdIndexLiveOnly(t, lookup_id) ==
    IF IdToNode(t, lookup_id) = {}
    THEN [res |-> "UnknownId", node_id |-> 0, idx |-> 0]
    ELSE LET node_id == t.id_to_node[lookup_id] IN
         IF node_id \notin DOMAIN t.nodes
         THEN [res |-> "Panic", node_id |-> node_id, idx |-> 0]
         ELSE IF ~IsSegment(t.nodes[node_id])
         THEN [res |-> "UnexpectedNodeType", node_id |-> node_id, idx |-> 0]
         ELSE IF IndexOfId(t.nodes[node_id].ids, lookup_id) = {}
         THEN [res |-> "Panic", node_id |-> node_id, idx |-> 0]
         ELSE IF t.nodes[node_id].ids[The(IndexOfId(t.nodes[node_id].ids, lookup_id))].pos = {}
         THEN [res |-> "UnknownId", node_id |-> 0, idx |-> 0]
         ELSE [res |-> "Ok", node_id |-> node_id,
               idx |-> The(IndexOfId(t.nodes[node_id].ids, lookup_id))]

\* lookup_id_index: [res, node_id, idx], idx the 1-based place in the ids list
LookupIdIndex(t, lookup_id) ==
    IF IdToNode(t, lookup_id) = {}
    THEN [res |-> "UnknownId", node_id |-> 0, idx |-> 0]
    ELSE LET node_id == t.id_to_node[lookup_id] IN
         IF node_id \notin DOMAIN t.nodes
         THEN [res |-> "Panic", node_id |-> node_id, idx |-> 0]
         ELSE IF ~IsSegment(t.nodes[node_id])
         THEN [res |-> "UnexpectedNodeType", node_id |-> node_id, idx |-> 0]
         ELSE IF IndexOfId(t.nodes[node_id].ids, lookup_id) = {}
         THEN [res |-> "Panic", node_id |-> node_id, idx |-> 0]
         ELSE [res |-> "Ok", node_id |-> node_id,
               idx |-> The(IndexOfId(t.nodes[node_id].ids, lookup_id))]

\* an insertion point that ignores tombstones: the anchor's own position + 1
IndexAfterLiveOnly(ids, i, contents_len) ==
    IF ids[i].pos # {} THEN The(ids[i].pos) + 1 ELSE 0

\* the contents index an entry appended after ids[i] goes to: the position
\* of the first live entry after i, else contents.len()
IndexAfter(ids, i, contents_len) ==
    IF \E j \in (i + 1)..Len(ids) : ids[j].pos # {}
    THEN The(ids[CHOOSE j \in (i + 1)..Len(ids) :
                     ids[j].pos # {} /\ \A k \in (i + 1)..(j - 1) : ids[k].pos = {}].pos)
    ELSE contents_len

\* an insertion point whose slot in the ids list is the anchor's own, so that
\* the new entry goes in before the anchor
LookupInsertionPointBefore(t, lookup_id) ==
    LET none == [res |-> "UnknownId", node_id |-> 0, string_index |-> 0,
                 id_list_index |-> 0]
    IN  IF IdToNode(t, lookup_id) = {} THEN none
        ELSE LET node_id == t.id_to_node[lookup_id] IN
             IF node_id \notin DOMAIN t.nodes THEN [none EXCEPT !.res = "Panic"]
             ELSE LET node == t.nodes[node_id] IN
                  IF IsContainer(node)
                  THEN [none EXCEPT !.res = "Ok", !.node_id = node.start]
                  ELSE IF ~IsSegment(node)
                  THEN [none EXCEPT !.res = "UnexpectedNodeType"]
                  ELSE IF IndexOfId(node.ids, lookup_id) = {}
                  THEN [none EXCEPT !.res = "Panic"]
                  ELSE LET i == The(IndexOfId(node.ids, lookup_id))
                       IN  [res |-> "Ok", node_id |-> node_id,
                            string_index |-> IndexAfter(node.ids, i, Len(node.contents)),
                            id_list_index |-> i - 1]

\* lookup_insertion_point: [res, node_id, string_index, id_list_index], both
\* indices 0-based as in the source
LookupInsertionPoint(t, lookup_id) ==
    LET none == [res |-> "UnknownId", node_id |-> 0, string_index |-> 0,
                 id_list_index |-> 0]
    IN  IF IdToNode(t, lookup_id) = {} THEN none
        ELSE LET node_id == t.id_to_node[lookup_id] IN
             IF node_id \notin DOMAIN t.nodes THEN [none EXCEPT !.res = "Panic"]
             ELSE LET node == t.nodes[node_id] IN
                  IF IsContainer(node)
                  THEN [none EXCEPT !.res = "Ok", !.node_id = node.start]
                  ELSE IF ~IsSegment(node)
                  THEN [none EXCEPT !.res = "UnexpectedNodeType"]
                  ELSE IF IndexOfId(node.ids, lookup_id) = {}
                  THEN [none EXCEPT !.res = "Panic"]
                  ELSE LET i == The(IndexOfId(node.ids, lookup_id))
                       IN  [res |-> "Ok", node_id |-> node_id,
                            string_index |-> IndexAfter(node.ids, i, Len(node.contents)),
                            id_list_index |-> i]

\* str::is_char_boundary on the byte sequence
IsCharBoundary(contents, index) ==
    \/ index = 0
    \/ index = Len(contents)
    \/ index < Len(contents) /\ contents[index + 1][2] = 1

\* positions moved as if every character took one byte
ShiftIdsOneByte(ids, from, delta) ==
    [i \in 1..Len(ids) |->
        IF i > from /\ ids[i].pos # {}
        THEN [ids[i] EXCEPT !.pos = {The(@) + (IF delta < 0 THEN 0 - 1 ELSE 1)}]
        ELSE ids[i]]

\* positions of ids[from..] moved by delta (from is 0-based: skip(from))
ShiftIds(ids, from, delta) ==
    [i \in 1..Len(ids) |->
        IF i > from /\ ids[i].pos # {}
        THEN [ids[i] EXCEPT !.pos = {The(@) + delta}]
        ELSE ids[i]]

\* a new segment linked in as the first of its sequence, wherever the
\* segment `append_to` stands
InsertSegmentFirst(t, append_to) ==
    LET new_id == t.next_node
        old == t.nodes[append_to]
        first == IF IsContainer(old) THEN append_to ELSE The(old.parent)
        old_next == t.nodes[first].start
        t1 == [NextId(t) EXCEPT !.nodes =
                  Put([@ EXCEPT ![first].start = new_id],
                      new_id,
                      MkNode(IF old.kind \in {"String", "StringSegment"}
                             THEN "StringSegment" ELSE "ArraySegment",
                             {first}, {}, 0, 0, first, old_next))]
    IN  [t1 EXCEPT !.nodes[old_next].prev = new_id]

\* a new segment linked in forwards only: the node that follows it keeps
\* its old prev (or end)
InsertSegmentNoBackLink(t, append_to) ==
    LET new_id == t.next_node
        old == t.nodes[append_to]
        old_next == IF IsContainer(old) THEN old.start ELSE old.next
        parent == IF IsContainer(old) THEN {append_to} ELSE old.parent
    IN  [NextId(t) EXCEPT !.nodes =
            Put(IF IsContainer(old)
                THEN [@ EXCEPT ![append_to].start = new_id]
                ELSE [@ EXCEPT ![append_to].next = new_id],
                new_id,
                MkNode(IF old.kind \in {"String", "StringSegment"}
                       THEN "StringSegment" ELSE "ArraySegment",
                       parent, {}, 0, 0, append_to, old_next))]

\* insert_segment: the tree with a new empty segment (node id t.next_node)
\* linked in after the segment `append_to`
InsertSegment(t, append_to) ==
    LET new_id == t.next_node
        old == t.nodes[append_to]
        old_next == IF IsContainer(old) THEN old.start ELSE old.next
        parent == IF IsContainer(old) THEN {append_to} ELSE old.parent
        t1 == [NextId(t) EXCEPT !.nodes =
                  Put(IF IsContainer(old)
                      THEN [@ EXCEPT ![append_to].start = new_id]
                      ELSE [@ EXCEPT ![append_to].next = new_id],
                      new_id,
                      MkNode(IF old.kind \in {"String", "StringSegment"}
                             THEN "StringSegment" ELSE "ArraySegment",
                             parent, {}, 0, 0, append_to, old_next))]
    IN  IF IsContainer(t1.nodes[old_next])
        THEN [t1 EXCEPT !.nodes[old_next].end = new_id]
        ELSE [t1 EXCEPT !.nodes[old_next].prev = new_id]

\* delete_segment: [t, panic]; the node is removed and its neighbours linked
DeleteSegment(t, segment) ==
    LET node == t.nodes[segment]
        t1 == [t EXCEPT !.nodes = Del(@, segment)]
        t2 == IF IsContainer(t1.nodes[node.prev])
              THEN [t1 EXCEPT !.nodes[node.prev].start = node.next]
              ELSE [t1 EXCEPT !.nodes[node.prev].next = node.next]
    IN  IF node.prev = node.next THEN [t |-> t1, panic |-> TRUE]
        ELSE [t |-> IF IsContainer(t2.nodes[node.next])
                    THEN [t2 EXCEPT !.nodes[node.next].end = node.prev]
                    ELSE [t2 EXCEPT !.nodes[node.next].prev = node.prev],
              panic |-> FALSE]

\* a join that merges any two neighbouring segments, whatever their lengths
ConsiderJoinAlways(t, segment, rightward, join_len, split_len) ==
    LET same == [t |-> t, panic |-> FALSE]
        node == t.nodes[segment]
        left == IF rightward THEN segment ELSE node.prev
        right == IF rightward THEN node.next ELSE segment
    IN  IF IsContainer(node) THEN same
        ELSE IF IsContainer(t.nodes[left]) \/ IsContainer(t.nodes[right]) THEN same
        ELSE LET d == DeleteSegment(t, right)
                 deleted == t.nodes[right]
                 base == Len(t.nodes[left].contents)
             IN  IF d.panic THEN d
                 ELSE [t |-> [d.t EXCEPT
                          !.id_to_node =
                              [y \in DOMAIN @ |->
                                  IF y \in IdsOf(deleted) THEN left ELSE @[y]],
                          !.nodes[left].ids = @ \o ShiftIds(deleted.ids, 0, base),
                          !.nodes[left].contents = @ \o deleted.contents],
                       panic |-> FALSE]

\* consider_join: [t, panic]
ConsiderJoin(t, segment, rightward, join_len, split_len) ==
    LET same == [t |-> t, panic |-> FALSE]
        node == t.nodes[segment]
        left == IF rightward THEN segment ELSE node.prev
        right == IF rightward THEN node.next ELSE segment
    IN  IF IsContainer(node) THEN same
        ELSE IF IsContainer(t.nodes[left]) \/ IsContainer(t.nodes[right]) THEN same
        ELSE LET left_len == Len(t.nodes[left].ids)
                 right_len == Len(t.nodes[right].ids)
                 d == DeleteSegment(t, right)
                 deleted == t.nodes[right]
                 base == Len(t.nodes[left].contents)
             IN  IF left_len >= join_len \/ right_len >= join_len
                    \/ left_len + right_len >= split_len
                 THEN same
                 ELSE IF d.panic THEN d
                 ELSE [t |-> [d.t EXCEPT
                          !.id_to_node =
                              [y \in DOMAIN @ |->
                                  IF y \in IdsOf(deleted) THEN left ELSE @[y]],
                          !.nodes[left].ids = @ \o ShiftIds(deleted.ids, 0, base),
                          !.nodes[left].contents = @ \o deleted.contents],
                       panic |-> FALSE]

\* a split that leaves the larger half of the entries in the original
\* segment
ConsiderSplitCeil(t, segment, split_len) ==
    LET node == t.nodes[segment]
        split_start_vec == (Len(node.ids) + 1) \div 2
        split_start_string ==
            IndexAfter(node.ids, split_start_vec, Len(node.contents))
        new_ids == ShiftIds(SubSeq(node.ids, split_start_vec + 1, Len(node.ids)),
                            0, 0 - split_start_string)
        t1 == [t EXCEPT
                 !.nodes[segment].contents = SubSeq(@, 1, split_start_string),
                 !.nodes[segment].ids = SubSeq(@, 1, split_start_vec)]
    IN  IF IsContainer(node) \/ Len(node.ids) <= split_len
        THEN [t |-> t, left |-> segment, right |-> segment, panic |-> FALSE]
        ELSE [t |-> [InsertSegment(t1, segment) EXCEPT
                        !.id_to_node =
                            [y \in DOMAIN @ |->
                                IF \E i \in 1..Len(new_ids) : new_ids[i].id = y
                                THEN t.next_node ELSE @[y]],
                        !.nodes[t.next_node].ids = new_ids,
                        !.nodes[t.next_node].contents =
                            SubSeq(node.contents, split_start_string + 1,
                                   Len(node.contents))],
              left |-> segment, right |-> t.next_node, panic |-> FALSE]

\* a split that moves the second half of the entries to a new segment and
\* leaves the identity map as it was
ConsiderSplitNoRemap(t, segment, split_len) ==
    LET node == t.nodes[segment]
        split_start_vec == Len(node.ids) \div 2
        split_start_string ==
            IndexAfter(node.ids, split_start_vec, Len(node.contents))
        t1 == [t EXCEPT
                 !.nodes[segment].contents = SubSeq(@, 1, split_start_string),
                 !.nodes[segment].ids = SubSeq(@, 1, split_start_vec)]
    IN  IF IsContainer(node) \/ Len(node.ids) <= split_len
        THEN [t |-> t, left |-> segment, right |-> segment, panic |-> FALSE]
        ELSE [t |-> [InsertSegment(t1, segment) EXCEPT
                        !.nodes[t.next_node].ids =
                            ShiftIds(SubSeq(node.ids, split_start_vec + 1,
                                            Len(node.ids)),
                                     0, 0 - split_start_string),
                        !.nodes[t.next_node].contents =
                            SubSeq(node.contents, split_start_string + 1,
                                   Len(node.contents))],
              left |-> segment, right |-> t.next_node, panic |-> FALSE]

\* a build that never splits a segment
ConsiderSplitNever(t, segment, split_len) ==
    [t |-> t, left |-> segment, right |-> segment, panic |-> FALSE]

\* consider_split: [t, left, right, panic]
RECURSIVE ConsiderSplit(_, _, _)
ConsiderSplit(t, segment, split_len) ==
    LET node == t.nodes[segment]
        same == [t |-> t, left |-> segment, right |-> segment, panic |-> FALSE]
    IN  IF IsContainer(node) \/ Len(node.ids) <= split_len THEN same
        ELSE LET split_start_vec == Len(node.ids) \div 2
                 split_start_string ==
                     IndexAfter(node.ids, split_start_vec, Len(node.contents))
                 new_ids == ShiftIds(SubSeq(node.ids, split_start_vec + 1, Len(node.ids)),
                                     0, 0 - split_start_string)
                 new_node_id == t.next_node
                 t1 == [t EXCEPT
                          !.nodes[segment].contents = SubSeq(@, 1, split_start_string),
                          !.nodes[segment].ids = SubSeq(@, 1, split_start_vec)]
                 t2 == [InsertSegment(t1, segment) EXCEPT
                          !.id_to_node =
                              [y \in DOMAIN @ |->
                                  IF \E i \in 1..Len(new_ids) : new_ids[i].id = y
                                  THEN new_node_id ELSE @[y]],
                          !.nodes[new_node_id].ids = new_ids,
                          !.nodes[new_node_id].contents =
                              SubSeq(node.contents, split_start_string + 1,
                                     Len(node.contents))]
                 Halves(l, r) ==
                     [t |-> r.t, left |-> l.left, right |-> r.right, panic |-> r.panic]
                 Right(l) ==
                     IF l.panic THEN l
                     ELSE Halves(l, ConsiderSplit(l.t, new_node_id, split_len))
             IN  IF node.kind = "StringSegment"
                    /\ ~IsCharBoundary(node.contents, split_start_string)
                 THEN [same EXCEPT !.panic = TRUE]
                 ELSE Right(ConsiderSplit(t2, segment, split_len))

\* insert_character, generalised: insert the entry `item` (its encoding, a
\* sequence of `width` content slots) with identity new_id after append_id,
\* in a segment of kind seg_kind
SeqInsert(t, append_id, new_id, seg_kind, item, split_len, join_len) ==
    LET Joined(j2) == R(j2.t, IF j2.panic THEN "Panic" ELSE "Ok", ValueUnset)
        JoinRight(sp, j1) ==
            IF j1.panic \/ sp.right \notin DOMAIN j1.t.nodes
            THEN R(j1.t, "Panic", ValueUnset)
            ELSE Joined(ConsiderJoin(j1.t, sp.right, FALSE, join_len, split_len))
        JoinLeft(sp) ==
            IF sp.panic THEN R(sp.t, "Panic", ValueUnset)
            ELSE JoinRight(sp, ConsiderJoin(sp.t, sp.left, FALSE, join_len, split_len))
        Place(p, node) ==
            IF node.kind # seg_kind THEN R(t, "Panic", ValueUnset)
            ELSE IF p.string_index > Len(node.contents)
                    \/ (seg_kind = "StringSegment"
                        /\ ~IsCharBoundary(node.contents, p.string_index))
            THEN R(t, "Panic", ValueUnset)
            ELSE JoinLeft(ConsiderSplit(
                     [t EXCEPT
                        !.nodes[p.node_id].contents =
                            SubSeq(@, 1, p.string_index) \o item
                                \o SubSeq(@, p.string_index + 1, Len(@)),
                        !.nodes[p.node_id].ids =
                            InsertAt(ShiftIds(@, p.id_list_index, Len(item)),
                                     p.id_list_index,
                                     [id |-> new_id, pos |-> {p.string_index}]),
                        !.id_to_node = Put(@, new_id, p.node_id)],
                     p.node_id, split_len))
        At(p) ==
            IF p.res # "Ok" THEN R(t, p.res, ValueUnset)
            ELSE Place(p, t.nodes[p.node_id])
    IN  IF new_id \in DOMAIN t.id_to_node THEN R(t, "DuplicateId", ValueUnset)
        ELSE At(LookupInsertionPoint(t, append_id))

\* the number of content slots of the entry at contents index `index`
WidthAt(node, index) ==
    IF node.kind = "StringSegment" THEN LenUtf8(node.contents[index + 1][1]) ELSE 1

\* a delete that tombstones again: it removes content even when the slot's
\* position was already taken
SeqDeleteAgain(t, id, seg_kind) ==
    LET p == LookupIdIndex(t, id)
        node == t.nodes[p.node_id]
        index == IF node.ids[p.idx].pos # {} THEN The(node.ids[p.idx].pos)
                 ELSE IndexAfter(node.ids, p.idx, Len(node.contents))
    IN  IF p.res # "Ok" THEN [t |-> t, res |-> p.res, child |-> {}]
        ELSE IF node.kind # seg_kind THEN [t |-> t, res |-> "Panic", child |-> {}]
        ELSE IF index >= Len(node.contents) THEN [t |-> t, res |-> "Ok", child |-> {}]
        ELSE [t |-> [t EXCEPT
                        !.nodes[p.node_id].ids =
                            ShiftIds([@ EXCEPT ![p.idx].pos = {}], p.idx,
                                     0 - WidthAt(node, index)),
                        !.nodes[p.node_id].contents =
                            SubSeq(@, 1, index)
                                \o SubSeq(@, index + WidthAt(node, index) + 1, Len(@))],
              res |-> "Ok", child |-> {node.contents[index + 1]}]

\* a delete that removes the content and leaves the later positions where
\* they were
SeqDeleteNoShift(t, id, seg_kind) ==
    LET p == LookupIdIndex(t, id)
        node == t.nodes[p.node_id]
        index == The(node.ids[p.idx].pos)
    IN  IF p.res # "Ok" THEN [t |-> t, res |-> p.res, child |-> {}]
        ELSE IF node.kind # seg_kind THEN [t |-> t, res |-> "Panic", child |-> {}]
        ELSE IF node.ids[p.idx].pos = {} THEN [t |-> t, res |-> "Ok", child |-> {}]
        ELSE [t |-> [t EXCEPT
                        !.nodes[p.node_id].ids[p.idx].pos = {},
                        !.nodes[p.node_id].contents =
                            SubSeq(@, 1, index)
                                \o SubSeq(@, index + WidthAt(node, index) + 1, Len(@))],
              res |-> "Ok", child |-> {node.contents[index + 1]}]

\* delete_character, generalised: [t, res, child], child the removed content
\* slot (an Option; None when the entry was already a tombstone)
SeqDelete(t, id, seg_kind) ==
    LET Remove(p, node, index) ==
            IF node.kind # seg_kind
               \/ index >= Len(node.contents)
               \/ (seg_kind = "StringSegment" /\ ~IsCharBoundary(node.contents, index))
            THEN [t |-> [t EXCEPT !.nodes[p.node_id].ids[p.idx].pos = {}],
                  res |-> "Panic", child |-> {}]
            ELSE [t |-> [t EXCEPT
                            !.nodes[p.node_id].ids =
                                ShiftIds([@ EXCEPT ![p.idx].pos = {}], p.idx,
                                         0 - WidthAt(node, index)),
                            !.nodes[p.node_id].contents =
                                SubSeq(@, 1, index)
                                    \o SubSeq(@, index + WidthAt(node, index) + 1,
                                              Len(@))],
                  res |-> "Ok", child |-> {node.contents[index + 1]}]
        At(p, node) ==
            IF node.ids[p.idx].pos = {} THEN [t |-> t, res |-> "Ok", child |-> {}]
            ELSE Remove(p, node, The(node.ids[p.idx].pos))
        Found(p) ==
            IF p.res # "Ok" THEN [t |-> t, res |-> p.res, child |-> {}]
            ELSE At(p, t.nodes[p.node_id])
    IN  Found(LookupIdIndex(t, id))

\* Tree::insert_character
InsertCharacter(t, append_id, character_id, character, split_len, join_len) ==
    SeqInsert(t, append_id, character_id, "StringSegment", CharBytes(character),
              split_len, join_len)

\* Tree::delete_character
DeleteCharacter(t, char_id) ==
    LET Done(r) == R(r.t, r.res, ValueUnset)
    IN  Done(SeqDelete(t, char_id, "StringSegment"))

\* the reparenting of a collection value by insert_list_item, under the
\* array the anchor belongs to
ReparentUnderAnchor(t, child, append_id) ==
    IF IdToNode(t, append_id) = {} THEN R(t, "UnknownId", ValueUnset)
    ELSE LET append_node == t.nodes[t.id_to_node[append_id]]
         IN  CASE append_node.kind = "ArraySegment" ->
                      IF append_node.parent = {} THEN R(t, "Panic", ValueUnset)
                      ELSE ReparentItem(t, child, The(append_node.parent))
               [] append_node.kind = "Array" ->
                      ReparentItem(t, child, t.id_to_node[append_id])
               [] OTHER -> R(t, "UnexpectedNodeType", ValueUnset)

\* Tree::insert_list_item
InsertListItem(t, append_id, character_id, value, split_len, join_len) ==
    LET Place(child, rp) ==
            IF rp.res # "Ok" THEN rp
            ELSE SeqInsert(rp.t, append_id, character_id, "ArraySegment",
                           <<child>>, split_len, join_len)
        Resolved(vc) ==
            IF vc.res # "Ok" THEN R(t, vc.res, ValueUnset)
            ELSE IF vc.child = {} THEN R(t, "Ok", ValueUnset)
            ELSE Place(The(vc.child),
                       IF The(vc.child).tag = "Collection"
                       THEN ReparentUnderAnchor(t, The(vc.child).v, append_id)
                       ELSE R(t, "Ok", ValueUnset))
    IN  Resolved(ValueToChild(t, value))

\* Tree::delete_list_item
DeleteListItem(t, item_id) ==
    LET Returned(m, value) ==
            IF value = ValuePanic THEN R(m.t, "Panic", ValueUnset)
            ELSE R(m.t, "Ok", value)
        Orphaned(r, m) ==
            IF m.res # "Ok" THEN m ELSE Returned(m, ChildToValue(m.t, r.child))
        Taken(r) ==
            IF r.res # "Ok" THEN R(r.t, r.res, ValueUnset)
            ELSE Orphaned(r, IF r.child # {} /\ The(r.child).tag = "Collection"
                             THEN MoveToOrphan(r.t, The(r.child).v)
                             ELSE R(r.t, "Ok", ValueUnset))
    IN  Taken(SeqDelete(t, item_id, "ArraySegment"))

\* the segments of a sequence container, first to last, following next
RECURSIVE SegmentsFrom(_, _, _, _)
SegmentsFrom(t, container, seg, fuel) ==
    IF seg = container \/ fuel = 0 \/ seg \notin DOMAIN t.nodes THEN <<>>
    ELSE <<seg>> \o SegmentsFrom(t, container, t.nodes[seg].next, fuel - 1)

Segments(t, container) ==
    SegmentsFrom(t, container, t.nodes[container].start, Cardinality(DOMAIN t.nodes))

RECURSIVE Concat(_)
Concat(ss) == IF ss = <<>> THEN <<>> ELSE Head(ss) \o Concat(Tail(ss))

\* StringRef::to_string / ArrayRef::to_vec (src/src/json/value.rs): the
\* contents of the segments in order (for a string, its bytes)
SeqContents(t, container) ==
    Concat([i \in 1..Len(Segments(t, container)) |->
               t.nodes[Segments(t, container)[i]].contents])

\* the ids lists of the segments in order: every entry, live or tombstoned
SeqIds(t, container) ==
    Concat([i \in 1..Len(Segments(t, container)) |->
               t.nodes[Segments(t, container)[i]].ids])

-----------------------------------------------------------------------------
(* Edits and operation batches (src/src/json/tree.rs, src/src/doc.rs).     *)

MaxEdits == 2

\* const CACHE_GAP of the document's log
CACHE_GAP == 10

\* enum Edit: the edits the batches of this model are made of
MapCreate(id) == [type |-> "MapCreate", id |-> id]

MapInsert(parent, key, item) ==
    [type |-> "MapInsert", parent |-> parent, key |-> key, item |-> item]

ArrayCreate(id) == [type |-> "ArrayCreate", id |-> id]

ArrayInsert(index, id, item) ==
    [type |-> "ArrayInsert", index |-> index, id |-> id, item |-> item]

ArrayDelete(id) == [type |-> "ArrayDelete", id |-> id]

TextCreate(id) == [type |-> "TextCreate", id |-> id]

TextInsert(index, id, character) ==
    [type |-> "TextInsert", index |-> index, id |-> id, character |-> character]

TextDelete(id) == [type |-> "TextDelete", id |-> id]

\* Tree::update
Update(t, edit) ==
    CASE edit.type = "ArrayCreate" -> ConstructArray(t, edit.id)
      [] edit.type = "ArrayInsert" ->
             InsertListItem(t, edit.index, edit.id, edit.item, splitLen, joinLen)
      [] edit.type = "ArrayDelete" -> DeleteListItem(t, edit.id)
      [] edit.type = "MapCreate" -> ConstructObject(t, edit.id)
      [] edit.type = "MapInsert" -> ObjectAssign(t, edit.parent, edit.key, edit.item)
      [] edit.type = "TextCreate" -> ConstructString(t, edit.id)
      [] edit.type = "TextInsert" ->
             InsertCharacter(t, edit.index, edit.id, edit.character, splitLen, joinLen)
      [] OTHER -> DeleteCharacter(t, edit.id)

\* the state of a document whose replay has panicked
Poisoned == [poisoned |-> TRUE]

\* a replay that ends at the first edit that fails
RECURSIVE ApplyEditsUntilError(_, _)
ApplyEditsUntilError(t, edits) ==
    LET Rest(r) == IF r.res = "Panic" THEN Poisoned
                   ELSE IF r.res # "Ok" THEN r.t
                   ELSE ApplyEditsUntilError(r.t, Tail(edits))
    IN  IF t = Poisoned \/ edits = <<>> THEN t ELSE Rest(Update(t, Head(edits)))

\* a batch applied to the tree: each edit goes through update, an edit's
\* error is dropped and the next edit sees the tree as the failed one left
\* it; a panic ends the replay
RECURSIVE ApplyEdits(_, _)
ApplyEdits(t, edits) ==
    LET Rest(r) == IF r.res = "Panic" THEN Poisoned ELSE ApplyEdits(r.t, Tail(edits))
    IN  IF t = Poisoned \/ edits = <<>> THEN t ELSE Rest(Update(t, Head(edits)))

\* impl Operation<Tree<Id>> for DocOp
DocApply(op, t) == ApplyEdits(t, op.edits)

\* struct DocOp
DocOp(timestamp, edits) == [timestamp |-> timestamp, edits |-> edits]

IsDocOp(op) == "edits" \in DOMAIN op

-----------------------------------------------------------------------------
(* src/src/opset.rs                                                        *)

TestEdits == [timestamp : 1..MaxTs, value : 1..MaxVal]

InitialState == <<0>>

\* Ord::cmp of the operation type. TestEdit derives it: lexicographic on
\* (timestamp, value); DocOp compares timestamps only
OpLess(a, b) ==
    IF IsDocOp(a) THEN a.timestamp < b.timestamp
    ELSE \/ a.timestamp < b.timestamp
         \/ a.timestamp = b.timestamp /\ a.value < b.value

\* Operation::apply of the operation type. TestEdit pushes its value on the
\* Vec<usize>; DocOp applies its edits to the tree
Apply(op, state) ==
    IF IsDocOp(op) THEN DocApply(op, state) ELSE Append(state, op.value)

New(initial_state, cache_gap) ==
    [ops |-> <<>>, cache_gap |-> cache_gap, states |-> <<<<0, initial_state>>>>]

\* Ordering::Equal of the comparator
OpEqual(a, b) == ~OpLess(a, b) /\ ~OpLess(b, a)

\* a search that never reports an equal element
BinarySearchNeverFound(ops, e) ==
    [found |-> FALSE, idx |-> Cardinality({i \in 1..Len(ops) : OpLess(ops[i], e)})]

\* slice::binary_search on the sorted ops: Ok(i) if an equal element exists,
\* else Err(i) with i the insertion index (0-based)
BinarySearch(ops, e) ==
    IF \E i \in 1..Len(ops) : OpEqual(ops[i], e)
    THEN [found |-> TRUE,
          idx |-> (CHOOSE i \in 1..Len(ops) : OpEqual(ops[i], e)) - 1]
    ELSE [found |-> FALSE,
          idx |-> Cardinality({i \in 1..Len(ops) : OpLess(ops[i], e)})]

\* slice::binary_search_by_key(&insert_point, |(n, _)| *n) on the states
StatesSearch(states, insert_point) ==
    IF \E i \in 1..Len(states) : states[i][1] = insert_point
    THEN [found |-> TRUE,
          idx |-> (CHOOSE i \in 1..Len(states) : states[i][1] = insert_point) - 1]
    ELSE [found |-> FALSE,
          idx |-> Cardinality({i \in 1..Len(states) : states[i][1] < insert_point})]

\* a search that gives up every checkpoint but the first
FirstBadStateFromStart(states, insert_point) == 1

\* match ... { Ok(n) => n + 1, Err(n) => n }
FirstBadStateKeepsLater(states, insert_point) ==
    LET r == StatesSearch(states, insert_point) IN r.idx + 1

FirstBadState(states, insert_point) ==
    LET r == StatesSearch(states, insert_point)
    IN  IF r.found THEN r.idx + 1 ELSE r.idx

\* a push condition that waits for one operation more than cache_gap
TimeForCacheLate(states, cache_gap, applied_ops) ==
    \/ Len(states) = 0
    \/ Last(states)[1] + cache_gap < applied_ops

\* the condition under which the replay loop pushes a new cache entry
TimeForCache(states, cache_gap, applied_ops) ==
    \/ Len(states) = 0
    \/ Last(states)[1] + cache_gap <= applied_ops

\* a replay that pushes a cache entry only when none remains, and the
\* final one
RECURSIVE ReplayLoopNoCache(_, _, _, _, _)
ReplayLoopNoCache(ops, cache_gap, states, applied_ops, state) ==
    IF applied_ops < Len(ops)
    THEN LET pushed == IF Len(states) = 0
                       THEN Append(states, <<applied_ops, state>>)
                       ELSE states
         IN  ReplayLoopNoCache(ops, cache_gap, pushed, applied_ops + 1,
                               Apply(ops[applied_ops + 1], state))
    ELSE Append(states, <<applied_ops, state>>)

\* the while loop of recalculate, and its final push
RECURSIVE ReplayLoop(_, _, _, _, _)
ReplayLoop(ops, cache_gap, states, applied_ops, state) ==
    IF applied_ops < Len(ops)
    THEN LET pushed == IF TimeForCache(states, cache_gap, applied_ops)
                       THEN Append(states, <<applied_ops, state>>)
                       ELSE states
         IN  ReplayLoop(ops, cache_gap, pushed, applied_ops + 1,
                        Apply(ops[applied_ops + 1], state))
    ELSE Append(states, <<applied_ops, state>>)

\* a recalculation that keeps every checkpoint and replays from the head
RecalculateFromHead(lg, insert_point) ==
    [log |-> [lg EXCEPT !.states =
                 ReplayLoop(lg.ops, lg.cache_gap, Front(lg.states),
                            Last(lg.states)[1], Last(lg.states)[2])],
     panic |-> FALSE]

\* a recalculation that reads the last kept checkpoint without popping it
RecalculateKeepsHead(lg, insert_point) ==
    LET kept == SubSeq(lg.states, 1,
                       IF FirstBadState(lg.states, insert_point) < Len(lg.states)
                       THEN FirstBadState(lg.states, insert_point)
                       ELSE Len(lg.states))
    IN  [log |-> [lg EXCEPT !.states =
                     ReplayLoop(lg.ops, lg.cache_gap, kept,
                                Last(kept)[1], Last(kept)[2])],
         panic |-> FALSE]

\* Opset::recalculate; panic is the unwrap of pop() on an empty states vector
Recalculate(lg, insert_point) ==
    LET kept == SubSeq(lg.states, 1,
                       IF FirstBadState(lg.states, insert_point) < Len(lg.states)
                       THEN FirstBadState(lg.states, insert_point)
                       ELSE Len(lg.states))
    IN  IF Len(kept) = 0
        THEN [log |-> [lg EXCEPT !.states = kept], panic |-> TRUE]
        ELSE [log |-> [lg EXCEPT !.states =
                          ReplayLoop(lg.ops, lg.cache_gap, Front(kept),
                                     Last(kept)[1], Last(kept)[2])],
              panic |-> FALSE]

\* an edit that goes to the end of the ops vector, whatever its place in
\* the order
EditAppends(lg, edit) ==
    LET bs == BinarySearch(lg.ops, edit)
    IN  IF bs.found
        THEN [log |-> lg, panic |-> TRUE]
        ELSE Recalculate([lg EXCEPT !.ops = Append(lg.ops, edit)], Len(lg.ops))

\* Opset::edit
Edit(lg, edit) ==
    LET bs == BinarySearch(lg.ops, edit)
    IN  IF bs.found
        THEN [log |-> lg, panic |-> TRUE]
        ELSE Recalculate([lg EXCEPT !.ops = InsertAt(lg.ops, bs.idx, edit)], bs.idx)

\* a minimum that forgets: the insertion point of the latest operation
LeastInsertPointLatest(least, insert_point) == {insert_point}

\* least_insert_point = match least_insert_point { Some(prev) if prev <
\* insert_point => Some(prev), _ => Some(insert_point) }
LeastInsertPoint(least, insert_point) ==
    IF least # {} /\ (CHOOSE p \in least : TRUE) < insert_point
    THEN least ELSE {insert_point}

\* the for loop of edit_from_iter over the remaining operations
RECURSIVE EditFromIterLoop(_, _, _)
EditFromIterLoop(lg, edits, least) ==
    IF edits = <<>>
    THEN [log |-> lg, least |-> least, panic |-> FALSE]
    ELSE LET bs == BinarySearch(lg.ops, Head(edits))
         IN  IF bs.found
             THEN [log |-> lg, least |-> least, panic |-> TRUE]
             ELSE EditFromIterLoop(
                      [lg EXCEPT !.ops = InsertAt(lg.ops, bs.idx, Head(edits))],
                      Tail(edits), LeastInsertPoint(least, bs.idx))

\* Opset::edit_from_iter
EditFromIter(lg, edits) ==
    LET r == EditFromIterLoop(lg, edits, {})
    IN  IF r.panic \/ r.least = {}
        THEN [log |-> r.log, panic |-> r.panic]
        ELSE Recalculate(r.log, CHOOSE p \in r.least : TRUE)

\* Opset::state
State(lg) == Last(lg.states)[2]

-----------------------------------------------------------------------------
(* Reference: the operations in ascending comparator order, applied once.  *)

RECURSIVE SortOps(_)
SortOps(S) ==
    IF S = {} THEN <<>>
    ELSE LET m == CHOOSE x \in S : \A y \in S \ {x} : OpLess(x, y)
         IN  <<m>> \o SortOps(S \ {m})

RECURSIVE ApplyAll(_, _)
ApplyAll(state, ops) ==
    IF ops = <<>> THEN state ELSE ApplyAll(Apply(Head(ops), state), Tail(ops))

RECURSIVE FeedSorted(_, _)
FeedSorted(lg, ops) ==
    IF ops = <<>> THEN lg ELSE FeedSorted(Edit(lg, Head(ops)).log, Tail(ops))

-----------------------------------------------------------------------------
(* The tree driven by a client calling its primitives.                     *)

NoArrival == [edit |-> FALSE, iter |-> FALSE, late |-> FALSE]

NoBatches == [A |-> DocOp(1, <<>>), B |-> DocOp(2, <<>>)]

\* a replica: its log, the batches delivered to it, whether it has panicked
Replica(lg) == [log |-> lg, got |-> <<>>, crashed |-> FALSE]

NoDocs == [r \in {"AB", "BA"} |-> Replica(New(TreeNew(0), CACHE_GAP))]

NoCall == [op |-> "new", res |-> "Ok", val |-> ValueUnset, noop |-> TRUE]

\* what the client sees of a call: its outcome, and whether the tree changed
Call(op, r) == [op |-> op, res |-> r.res, val |-> r.val, noop |-> (r.t = tree)]

\* Identities are opaque to the tree (it only compares them), so of the
\* identities not in use one stands for all: the least.
ArgIds ==
    (Ids \cap DOMAIN tree.id_to_node)
        \cup (IF Ids \subseteq DOMAIN tree.id_to_node THEN {}
              ELSE {CHOOSE i \in Ids \ DOMAIN tree.id_to_node :
                        \A j \in Ids \ DOMAIN tree.id_to_node : i <= j})

\* value_to_child resolves Object, Array and String references in one match
\* arm, whatever the referenced node is: two of the three tags are drawn
ArgValues ==
    {ValueUnset, ValueTrue}
        \cup {ValueRef(k, i) : k \in {"Object", "String"}, i \in ArgIds}

\* a primitive call with outcome r
Step(op, r) ==
    /\ ~crashed
    /\ steps < MaxSteps
    /\ tree' = r.t
    /\ last' = Call(op, r)
    /\ crashed' = (r.res = "Panic")
    /\ steps' = steps + 1
    /\ UNCHANGED <<splitLen, joinLen, opsetVars, docVars>>

Init ==
    /\ \E kind \in RootKinds : tree = NewWithRoot(kind, 0)
    /\ last = NoCall
    /\ steps = 0
    /\ crashed = FALSE
    /\ splitLen = SPLIT_LEN
    /\ joinLen = JOIN_LEN
    /\ log = New(InitialState, 0) /\ received = {} /\ arrival = NoArrival
    /\ opCrashed = FALSE
    /\ batches = NoBatches /\ docs = NoDocs

DoConstructObject(id) == Step("construct_object", ConstructObject(tree, id))

DoConstructString(id) == Step("construct_string", ConstructString(tree, id))

DoConstructArray(id) == Step("construct_array", ConstructArray(tree, id))

DoObjectAssign(object, key, value) ==
    Step("object_assign", ObjectAssign(tree, object, key, value))

DoInsertCharacter(append_id, id, c) ==
    Step("insert_character", InsertCharacter(tree, append_id, id, c, splitLen, joinLen))

DoDeleteCharacter(id) == Step("delete_character", DeleteCharacter(tree, id))

DoInsertListItem(append_id, id, value) ==
    Step("insert_list_item",
         InsertListItem(tree, append_id, id, value, splitLen, joinLen))

DoDeleteListItem(id) == Step("delete_list_item", DeleteListItem(tree, id))

DoDeleteOrphans == Step("delete_orphans", DeleteOrphans(tree))

Next ==
    \/ \E id \in ArgIds : DoConstructObject(id)
    \/ \E id \in ArgIds : DoConstructString(id)
    \/ \E id \in ArgIds : DoConstructArray(id)
    \/ \E object \in ArgIds, key \in Keys, value \in ArgValues :
           DoObjectAssign(object, key, value)
    \/ \E append_id \in ArgIds, id \in ArgIds, c \in Chars :
           DoInsertCharacter(append_id, id, c)
    \/ \E id \in ArgIds : DoDeleteCharacter(id)
    \/ \E append_id \in ArgIds, id \in ArgIds, value \in ArgValues :
           DoInsertListItem(append_id, id, value)
    \/ \E id \in ArgIds : DoDeleteListItem(id)
    \/ DoDeleteOrphans

Spec == Init /\ [][Next]_vars

-----------------------------------------------------------------------------
(* The operation log driven by a client.                                   *)

Batches == UNION {[1..n -> TestEdits] : n \in 0..MaxBatch}

InitOpset ==
    /\ \E g \in 0..MaxGap : log = New(InitialState, g)
    /\ received = {}
    /\ arrival = NoArrival
    /\ opCrashed = FALSE
    /\ tree = TreeNew(0) /\ last = NoCall /\ steps = 0 /\ crashed = FALSE
    /\ splitLen = SPLIT_LEN /\ joinLen = JOIN_LEN
    /\ batches = NoBatches /\ docs = NoDocs

OpsetEdit(e) ==
    /\ ~opCrashed
    /\ Len(log.ops) < MaxOps
    /\ UNCHANGED <<treeVars, docVars>>
    /\ LET Returned(r) ==
               /\ log' = r.log
               /\ opCrashed' = r.panic
               /\ received' = IF r.panic THEN received ELSE received \cup {e}
       IN  Returned(Edit(log, e))
    /\ arrival' = [arrival EXCEPT !.edit = TRUE,
                      !.late = @ \/ \E o \in received : OpLess(e, o)]

OpsetEditFromIter(b) ==
    /\ ~opCrashed
    /\ Len(log.ops) + Len(b) <= MaxOps
    /\ UNCHANGED <<treeVars, docVars>>
    /\ LET Returned(r) ==
               /\ log' = r.log
               /\ opCrashed' = r.panic
               /\ received' = IF r.panic THEN received ELSE received \cup SeqRange(b)
       IN  Returned(EditFromIter(log, b))
    /\ arrival' = [arrival EXCEPT !.iter = TRUE,
                      !.late = @ \/ \E i \in 1..Len(b) :
                          \E o \in received \cup {b[j] : j \in 1..(i - 1)} :
                              OpLess(b[i], o)]

NextOpset ==
    \/ \E e \in TestEdits : OpsetEdit(e)
    \/ \E b \in Batches : OpsetEditFromIter(b)

SpecOpset == InitOpset /\ [][NextOpset]_vars

-----------------------------------------------------------------------------
(* Two replicas of a document receiving the batches A and B, one in the   *)
(* order A, B and one in the order B, A.                                   *)

\* the identities and values the edits of A and B are drawn from
DocIds == {0, 1}

DocValues == {ValueTrue, ValueInt(1)} \cup {ValueRef("Object", i) : i \in DocIds}

DocEdits ==
    {MapCreate(1), TextCreate(1)}
        \cup {MapInsert(p, "k", v) : p \in DocIds, v \in DocValues}

EditLists == UNION {[1..n -> DocEdits] : n \in 1..MaxEdits}

\* the order in which a replica receives the batches
Order(r) == IF r = "AB" THEN <<"A", "B">> ELSE <<"B", "A">>

InitDoc ==
    /\ \E ts \in {1, 2}, ea \in EditLists, eb \in EditLists :
           batches = [A |-> DocOp(ts, ea), B |-> DocOp(3 - ts, eb)]
    /\ docs = [r \in {"AB", "BA"} |->
                  Replica(New(NewWithRoot("Object", 0), CACHE_GAP))]
    /\ tree = TreeNew(0) /\ last = NoCall /\ steps = 0 /\ crashed = FALSE
    /\ splitLen = SPLIT_LEN /\ joinLen = JOIN_LEN
    /\ log = New(InitialState, 0) /\ received = {} /\ arrival = NoArrival
    /\ opCrashed = FALSE

\* replica r receives its next batch through Opset::edit; a panic of the
\* log or of the replay ends the replica
Deliver(r) ==
    /\ ~docs[r].crashed
    /\ Len(docs[r].got) < 2
    /\ LET name == Order(r)[Len(docs[r].got) + 1]
           Received(e) ==
               docs' = [docs EXCEPT ![r] =
                           [log |-> e.log,
                            got |-> Append(docs[r].got, name),
                            crashed |-> e.panic \/ State(e.log) = Poisoned]]
       IN  Received(Edit(docs[r].log, batches[name]))
    /\ UNCHANGED <<batches, treeVars, opsetVars>>

NextDoc == \E r \in {"AB", "BA"} : Deliver(r)

SpecDoc == InitDoc /\ [][NextDoc]_vars

-----------------------------------------------------------------------------
(* C1: for operations with pairwise distinct keys, in any arrival order    *)
(* and any mix of edit and edit_from_iter calls, state() equals the        *)
(* initial state with every received operation applied exactly once in     *)
(* ascending comparator order, which is also the state() of a fresh log    *)
(* fed the same operations in sorted order.                                *)
C1_CheckpointCorrectness ==
    ~opCrashed =>
        /\ State(log) = ApplyAll(InitialState, SortOps(received))
        /\ State(log) = State(FeedSorted(New(InitialState, log.cache_gap),
                                         SortOps(received)))

C1_Witness ==
    /\ ~opCrashed
    /\ Cardinality(received) = MaxOps
    /\ arrival.edit /\ arrival.iter /\ arrival.late
    /\ Len(log.states) >= 3

-----------------------------------------------------------------------------
(* C2: two batches A and B with distinct timestamps, delivered through     *)
(* the log to the same initial tree, leave the same document whether A or  *)
(* B arrives first (same type, parent, map values, string text and array   *)
(* values for every identity), also when edits of A or B fail in replay    *)
(* and are dropped.                                                        *)

\* what a client reads of identity id
ViewOf(t, id) ==
    [type |-> GetType(t, id),
     parent |-> GetParent(t, id),
     map |-> [k \in Keys |-> ObjectGet(t, id, k)],
     content |-> IF GetType(t, id) = "String"
                 THEN SeqContents(t, t.id_to_node[id])
                 ELSE IF GetType(t, id) = "Array"
                 THEN [i \in 1..Len(SeqContents(t, t.id_to_node[id])) |->
                          ChildToValue(t, {SeqContents(t, t.id_to_node[id])[i]})]
                 ELSE <<>>]

\* the document state: what a client reads of every identity
DocView(t) == [id \in DOMAIN t.id_to_node |-> ViewOf(t, id)]

\* a replica has come to its end: both batches replayed, or a panic
Finished(r) == docs[r].crashed \/ Len(docs[r].got) = 2

C2_BatchesCommute ==
    (Finished("AB") /\ Finished("BA")) =>
        /\ docs["AB"].crashed = docs["BA"].crashed
        /\ ~docs["AB"].crashed =>
               DocView(State(docs["AB"].log)) = DocView(State(docs["BA"].log))

\* the same, of replicas that did not panic
C2_Aux_NoPanicCommute ==
    (/\ Len(docs["AB"].got) = 2 /\ Len(docs["BA"].got) = 2
     /\ ~docs["AB"].crashed /\ ~docs["BA"].crashed) =>
        DocView(State(docs["AB"].log)) = DocView(State(docs["BA"].log))

-----------------------------------------------------------------------------
(* What the claims speak about.                                            *)

\* the node ids met walking parent links upward from node n, n included
RECURSIVE UpFrom(_, _, _)
UpFrom(t, n, seen) ==
    IF n \in seen \/ n \notin DOMAIN t.nodes THEN seen
    ELSE IF t.nodes[n].parent = {} THEN seen \cup {n}
    ELSE UpFrom(t, The(t.nodes[n].parent), seen \cup {n})

Ancestors(t, n) == UpFrom(t, n, {})

\* the node a collection value names, as an Option
ValueNode(t, value) ==
    IF IsRef(value) /\ GetType(t, value.v) \in {"Object", "String", "Array"}
    THEN IdToNode(t, value.v) ELSE {}

\* the node object_assign makes the parent of its value, as an Option
AssignTarget(t, object) == IdToNode(t, object)

\* the array node insert_list_item makes the parent of its value, as an
\* Option: the anchor's array (the anchor is the array or one of its entries)
InsertTarget(t, append_id) ==
    IF IdToNode(t, append_id) = {} \/ t.id_to_node[append_id] \notin DOMAIN t.nodes
    THEN {}
    ELSE LET append_node == t.nodes[t.id_to_node[append_id]]
         IN  CASE append_node.kind = "ArraySegment" -> append_node.parent
               [] append_node.kind = "Array" -> {t.id_to_node[append_id]}
               [] OTHER -> {}

\* the value is a collection whose subtree holds the target: the walk up
\* from the target passes through it
HoldsTarget(t, value, target) ==
    /\ ValueNode(t, value) # {} /\ target # {}
    /\ The(ValueNode(t, value)) \in DOMAIN t.nodes
    /\ The(ValueNode(t, value)) \in Ancestors(t, The(target))

HasParent(t, value) ==
    /\ ValueNode(t, value) # {}
    /\ The(ValueNode(t, value)) \in DOMAIN t.nodes
    /\ t.nodes[The(ValueNode(t, value))].parent # {}

\* the nodes a node holds: an object's collection values, a sequence's
\* segments, an array's collection entries
Children(t, n) ==
    LET node == t.nodes[n]
        segs == SeqRange(Segments(t, n))
    IN  CASE node.kind = "Object" ->
                 CollectionsOf({node.items[k] : k \in DOMAIN node.items})
          [] node.kind = "String" -> segs
          [] node.kind = "Array" ->
                 segs \cup UNION {CollectionsOf(SeqRange(t.nodes[s].contents)) : s \in segs}
          [] OTHER -> {}

\* every parent link is matched by a slot of the parent
WellLinked(t) ==
    \A n \in DOMAIN t.nodes :
        t.nodes[n].parent # {} =>
            /\ The(t.nodes[n].parent) \in DOMAIN t.nodes
            /\ n \in Children(t, The(t.nodes[n].parent))

\* the call failed with `err` and left the tree as it was
FailsUnchanged(t, r, err) == r.res = err /\ r.t = t

-----------------------------------------------------------------------------
-----------------------------------------------------------------------------
-----------------------------------------------------------------------------
(* C5: after any sequence of calls, successful or failing, the walk up the *)
(* parent links from any node terminates at the root or at a member of     *)
(* the orphan set; the parent graph has no cycle.                          *)
RootNode(t) == t.id_to_node[t.root]

ChainEnds(t, n) ==
    \E m \in Ancestors(t, n) :
        /\ t.nodes[m].parent = {}
        /\ m = RootNode(t) \/ m \in t.orphans

C5_ParentChainsEnd ==
    ~crashed => \A n \in DOMAIN tree.nodes : ChainEnds(tree, n)

-----------------------------------------------------------------------------
(* C6: after delete_orphans the orphan set is empty, every identity that   *)
(* was under an orphan returns UnknownId from get_type and get_parent, and *)
(* every identity under the root resolves exactly as before the sweep.     *)
UnderOrphan(t, id) == Ancestors(t, t.id_to_node[id]) \cap t.orphans # {}

UnderRoot(t, id) == RootNode(t) \in Ancestors(t, t.id_to_node[id])

C6_Sweep ==
    (last'.op = "delete_orphans" /\ ~crashed') =>
        /\ tree'.orphans = {}
        /\ \A id \in DOMAIN tree.id_to_node :
               /\ UnderOrphan(tree, id) =>
                      /\ GetType(tree', id) = "UnknownId"
                      /\ GetParent(tree', id).res = "UnknownId"
               /\ UnderRoot(tree, id) =>
                      /\ GetType(tree', id) = GetType(tree, id)
                      /\ GetParent(tree', id) = GetParent(tree, id)
                      /\ tree'.id_to_node[id] = tree.id_to_node[id]
                      /\ tree'.nodes[tree.id_to_node[id]] = tree.nodes[tree.id_to_node[id]]

C6_SweepSound == [][C6_Sweep]_vars

\* C5 and C6 of trees whose parent links all have their slot (no failed call
\* has left a parent link behind): both hold there
C5_Aux_WellLinkedChainsEnd ==
    (~crashed /\ WellLinked(tree)) => \A n \in DOMAIN tree.nodes : ChainEnds(tree, n)

C6_Aux_WellLinkedSweep == [][WellLinked(tree) => C6_Sweep]_vars

-----------------------------------------------------------------------------
(* Sequences as the claims see them.                                       *)

\* the sequence (string or array node) an identity belongs to, as an
\* Option: the container itself, or the container of the entry's segment
SequenceOf(t, id) ==
    IF IdToNode(t, id) = {} \/ t.id_to_node[id] \notin DOMAIN t.nodes THEN {}
    ELSE LET node == t.nodes[t.id_to_node[id]]
         IN  IF IsContainer(node) THEN {t.id_to_node[id]}
             ELSE IF IsSegment(node) THEN node.parent
             ELSE {}

\* the identities of a sequence in traversal order, tombstones included
IdOrder(t, container) ==
    [i \in 1..Len(SeqIds(t, container)) |-> SeqIds(t, container)[i].id]

\* the place of identity id in a list of identities (0 when it is not there,
\* as for the container, after which an entry comes first)
PlaceOf(order, id) ==
    IF \E i \in 1..Len(order) : order[i] = id
    THEN CHOOSE i \in 1..Len(order) : order[i] = id
    ELSE 0

\* an identity that names an entry (not the container) of a sequence
IsEntry(t, id) ==
    /\ IdToNode(t, id) # {}
    /\ t.id_to_node[id] \in DOMAIN t.nodes
    /\ IsSegment(t.nodes[t.id_to_node[id]])

\* the entry's record in its segment's ids list
EntryOf(t, id) ==
    LET node == t.nodes[t.id_to_node[id]]
    IN  node.ids[The(IndexOfId(node.ids, id))]

IsTombstone(t, id) == IsEntry(t, id) /\ EntryOf(t, id).pos = {}

\* between t and t2 the identity new_id was placed immediately after the
\* anchor in the anchor's sequence, all other identities keeping their order
PlacedAfter(t, t2, append_id, new_id) ==
    /\ SequenceOf(t, append_id) # {}
    /\ IdOrder(t2, The(SequenceOf(t, append_id))) =
           InsertAt(IdOrder(t, The(SequenceOf(t, append_id))),
                    PlaceOf(IdOrder(t, The(SequenceOf(t, append_id))), append_id),
                    new_id)

-----------------------------------------------------------------------------
(* C7, as stated: a successful insert_character or insert_list_item places *)
(* the new identity immediately after the anchor in the sequence's         *)
(* identity order (first when the anchor is the container), whether the    *)
(* anchor is live or tombstoned, and keeps the order of all others.        *)
C7_InsertPlacesAfterAnchor ==
    ~crashed =>
        /\ \A append_id \in ArgIds, id \in ArgIds, c \in Chars :
               LET r == InsertCharacter(tree, append_id, id, c, splitLen, joinLen)
               IN  r.res = "Ok" => PlacedAfter(tree, r.t, append_id, id)
        /\ \A append_id \in ArgIds, id \in ArgIds, value \in ArgValues :
               LET r == InsertListItem(tree, append_id, id, value, splitLen, joinLen)
               IN  r.res = "Ok" => PlacedAfter(tree, r.t, append_id, id)

(* C7, amended: a successful insert_character, or a successful             *)
(* insert_list_item of a value other than Unset, places the new identity   *)
(* immediately after the anchor in the sequence's identity order (first    *)
(* when the anchor is the container), whether the anchor is live or        *)
(* tombstoned, and keeps the order of all others.                          *)
C7_PlacedInsertAfterAnchor ==
    ~crashed =>
        /\ \A append_id \in ArgIds, id \in ArgIds, c \in Chars :
               LET r == InsertCharacter(tree, append_id, id, c, splitLen, joinLen)
               IN  r.res = "Ok" => PlacedAfter(tree, r.t, append_id, id)
        /\ \A append_id \in ArgIds, id \in ArgIds, value \in ArgValues \ {ValueUnset} :
               LET r == InsertListItem(tree, append_id, id, value, splitLen, joinLen)
               IN  r.res = "Ok" => PlacedAfter(tree, r.t, append_id, id)

\* an insert has succeeded in a sequence that holds a tombstone and two
\* further entries
C7_Witness ==
    /\ last.op \in {"insert_character", "insert_list_item"}
    /\ last.res = "Ok" /\ ~last.noop
    /\ \E n \in DOMAIN tree.nodes :
           /\ IsContainer(tree.nodes[n])
           /\ Len(SeqIds(tree, n)) >= 3
           /\ \E i \in 1..Len(SeqIds(tree, n)) : SeqIds(tree, n)[i].pos = {}

-----------------------------------------------------------------------------
(* Live content as the claims see it.                                      *)

\* the number of live entries before identity c in its sequence
LiveBefore(t, c) ==
    LET ids == SeqIds(t, The(SequenceOf(t, c)))
    IN  Cardinality({i \in 1..(PlaceOf(IdOrder(t, The(SequenceOf(t, c))), c) - 1) :
                        ids[i].pos # {}})

\* the content slots k live entries take: k values of an array, the bytes
\* of k characters of a string
SlotsOf(t, container, k) ==
    LET contents == SeqContents(t, container)
        starts == {i \in 1..Len(contents) : contents[i][2] = 1}
    IN  IF t.nodes[container].kind = "Array" THEN k
        ELSE IF k >= Cardinality(starts) THEN Len(contents)
        ELSE (CHOOSE i \in starts : Cardinality({j \in starts : j < i}) = k) - 1

\* between t and t2 the content `item` went in directly after the nearest
\* live entry preceding c (first when there is none), nothing else moving
LiveAfter(t, t2, c, item) ==
    LET container == The(SequenceOf(t, c))
        contents == SeqContents(t, container)
        at == SlotsOf(t, container, LiveBefore(t, c))
    IN  SeqContents(t2, container) =
            SubSeq(contents, 1, at) \o item \o SubSeq(contents, at + 1, Len(contents))

\* a value insert_list_item can place in the array of entry c: a primitive,
\* or a collection of the orphan set that does not hold that array
Placeable(t, value, c) ==
    \/ value = ValueTrue
    \/ /\ ValueNode(t, value) # {}
       /\ The(ValueNode(t, value)) \in t.orphans
       /\ ~HoldsTarget(t, value, InsertTarget(t, c))

SegmentKind(t, id) == t.nodes[t.id_to_node[id]].kind

-----------------------------------------------------------------------------
-----------------------------------------------------------------------------
(* C9: delete_character and delete_list_item are idempotent: deleting an   *)
(* identity that is already tombstoned returns success and leaves the tree *)
(* unchanged.                                                              *)
C9_DeleteIdempotent ==
    ~crashed =>
        \A id \in ArgIds :
            IsTombstone(tree, id) =>
                /\ SegmentKind(tree, id) = "StringSegment" =>
                       FailsUnchanged(tree, DeleteCharacter(tree, id), "Ok")
                /\ SegmentKind(tree, id) = "ArraySegment" =>
                       FailsUnchanged(tree, DeleteListItem(tree, id), "Ok")

\* a delete has succeeded and left the tree as it was
C9_Witness ==
    /\ last.op \in {"delete_character", "delete_list_item"}
    /\ last.res = "Ok" /\ last.noop
    /\ \E id \in DOMAIN tree.id_to_node : IsTombstone(tree, id)

-----------------------------------------------------------------------------
(* C10: when object_assign overwrites or removes a key that held a         *)
(* collection, or delete_list_item deletes an entry that held one, only    *)
(* that collection is detached: its parent becomes none and it joins the   *)
(* orphan set, while it and all of its descendants keep their identities,  *)
(* types and contents, and keep resolving until delete_orphans is called.  *)

\* the nodes of the subtree of node n, n included
RECURSIVE Below(_, _, _)
Below(t, todo, seen) ==
    IF todo \subseteq seen THEN seen
    ELSE Below(t,
               UNION {Children(t, m) : m \in (todo \ seen) \cap DOMAIN t.nodes},
               seen \cup todo)

Subtree(t, n) == Below(t, {n}, {})

\* the call that has just returned displaced a collection: it hands the
\* collection back as its value
Displaced ==
    /\ last'.op \in {"object_assign", "delete_list_item"}
    /\ last'.res = "Ok"
    /\ IsRef(last'.val)

\* node d was detached and nothing of its subtree was touched
Detached(t, t2, d) ==
    /\ t.nodes[d].parent # {}
    /\ t2.orphans \ t.orphans = {d}
    /\ \A m \in Subtree(t, d) :
           /\ m \in DOMAIN t2.nodes
           /\ t2.nodes[m] = IF m = d THEN [t.nodes[m] EXCEPT !.parent = {}]
                            ELSE t.nodes[m]
    /\ \A id \in DOMAIN t.id_to_node :
           t.id_to_node[id] \in Subtree(t, d) =>
               /\ id \in DOMAIN t2.id_to_node
               /\ t2.id_to_node[id] = t.id_to_node[id]
               /\ GetType(t2, id) = GetType(t, id)
    /\ \A m \in DOMAIN t.nodes \ {d} :
           t.nodes[m].parent # {} =>
               m \in DOMAIN t2.nodes /\ t2.nodes[m].parent = t.nodes[m].parent

\* a call other than delete_orphans keeps every identity resolving, with
\* its type
KeepsResolving ==
    (last'.op # "delete_orphans" /\ ~crashed') =>
        \A id \in DOMAIN tree.id_to_node : GetType(tree', id) = GetType(tree, id)

C10_Step ==
    /\ Displaced => Detached(tree, tree', tree.id_to_node[last'.val.v])
    /\ KeepsResolving

C10_DisplacedIsDetached == [][C10_Step]_vars

\* a string with a character in it, or an object or array with a collection
\* in it, has just been displaced
C10_Witness ==
    /\ last.op \in {"object_assign", "delete_list_item"}
    /\ last.res = "Ok"
    /\ IsRef(last.val)
    /\ tree.id_to_node[last.val.v] \in tree.orphans
    /\ \E id \in DOMAIN tree.id_to_node :
           /\ id # last.val.v
           /\ tree.id_to_node[id] \in Subtree(tree, tree.id_to_node[last.val.v])

-----------------------------------------------------------------------------
(* C11: no primitive of the tree panics on caller input: whatever           *)
(* identities and values are passed (unknown, tombstoned, of the wrong      *)
(* kind, the root used as a value), construct_object/string/array,          *)
(* object_assign, insert_character, insert_list_item, delete_character,     *)
(* delete_list_item, get_type, get_parent and object get return success or  *)
(* one of the TreeError values.                                             *)
C11_NoPrimitivePanics ==
    ~crashed =>
        /\ \A id \in ArgIds :
               /\ ConstructObject(tree, id).res # "Panic"
               /\ ConstructString(tree, id).res # "Panic"
               /\ ConstructArray(tree, id).res # "Panic"
               /\ DeleteCharacter(tree, id).res # "Panic"
               /\ DeleteListItem(tree, id).res # "Panic"
               /\ GetType(tree, id) # "Panic"
               /\ GetParent(tree, id).res # "Panic"
        /\ \A object \in ArgIds, key \in Keys :
               /\ ObjectGet(tree, object, key).val # ValuePanic
               /\ \A value \in ArgValues :
                      ObjectAssign(tree, object, key, value).res # "Panic"
        /\ \A append_id \in ArgIds, id \in ArgIds :
               /\ \A c \in Chars :
                      InsertCharacter(tree, append_id, id, c, splitLen, joinLen).res
                          # "Panic"
               /\ \A value \in ArgValues :
                      InsertListItem(tree, append_id, id, value, splitLen, joinLen).res
                          # "Panic"

\* C11, of the root used as a value: object_assign of the root into an
\* object does not panic
C11_Aux_RootValueNoPanic ==
    ~crashed =>
        \A object \in ArgIds, key \in Keys :
            GetType(tree, object) = "Object"
                => ObjectAssign(tree, object, key,
                                ValueRef(GetType(tree, tree.root), tree.root)).res
                       # "Panic"

-----------------------------------------------------------------------------
(* C12, as stated: construct_object, construct_string, construct_array,    *)
(* insert_character and insert_list_item fail with DuplicateId whenever    *)
(* the new identity is already in use in the tree (by the root, by a       *)
(* collection attached or orphan, by a live or by a tombstoned entry).     *)
C12_DuplicateIdAlways ==
    ~crashed =>
        \A id \in DOMAIN tree.id_to_node :
            /\ ConstructObject(tree, id).res = "DuplicateId"
            /\ ConstructString(tree, id).res = "DuplicateId"
            /\ ConstructArray(tree, id).res = "DuplicateId"
            /\ \A append_id \in ArgIds :
                   /\ \A c \in Chars :
                          InsertCharacter(tree, append_id, id, c, splitLen, joinLen).res
                              = "DuplicateId"
                   /\ \A value \in ArgValues :
                          InsertListItem(tree, append_id, id, value,
                                         splitLen, joinLen).res = "DuplicateId"

(* C12, amended: the constructors and insert_character fail with           *)
(* DuplicateId whenever the new identity is in use, whatever the anchor;   *)
(* insert_list_item does so when its value is a primitive other than       *)
(* Unset, or a collection that can be placed at the anchor (the anchor is  *)
(* an array or an array entry, the value an orphan collection that does    *)
(* not hold that array).                                                   *)
C12_DuplicateIdRejected ==
    ~crashed =>
        \A id \in DOMAIN tree.id_to_node :
            /\ ConstructObject(tree, id).res = "DuplicateId"
            /\ ConstructString(tree, id).res = "DuplicateId"
            /\ ConstructArray(tree, id).res = "DuplicateId"
            /\ \A append_id \in ArgIds :
                   /\ \A c \in Chars :
                          InsertCharacter(tree, append_id, id, c, splitLen, joinLen).res
                              = "DuplicateId"
                   /\ \A value \in ArgValues :
                          (\/ value = ValueTrue
                           \/ /\ InsertTarget(tree, append_id) # {}
                              /\ Placeable(tree, value, append_id))
                              => InsertListItem(tree, append_id, id, value,
                                                splitLen, joinLen).res = "DuplicateId"

\* an insert was refused for its identity while the tree holds a tombstone
\* (whose identity is in use too)
C12_Witness ==
    /\ last.op \in {"insert_character", "insert_list_item"}
    /\ last.res = "DuplicateId"
    /\ \E id \in DOMAIN tree.id_to_node : IsTombstone(tree, id)

-----------------------------------------------------------------------------
(* The errors of the sequence primitives for an anchor or entry.           *)

\* a value insert_list_item can resolve: a primitive, or a reference to an
\* identity of the tree
Resolves(t, value) == value # ValueUnset /\ (IsRef(value) => IdToNode(t, value.v) # {})

\* the outcome C13 requires of an insert of kind `kinds` (the types of the
\* target sequence and of its entries) anchored at append_id
AnchorError(t, append_id, kinds, res) ==
    /\ IdToNode(t, append_id) = {} => res = "UnknownId"
    /\ (IdToNode(t, append_id) # {} /\ GetType(t, append_id) \notin kinds)
           => res = "UnexpectedNodeType"

(* C13: insert_character and insert_list_item (of a new identity and of a  *)
(* value that resolves) fail with UnknownId when the anchor is not in the  *)
(* tree and with UnexpectedNodeType when the anchor is neither the target  *)
(* sequence container nor one of its entries; delete_character and         *)
(* delete_list_item fail with UnknownId for an unknown identity and with   *)
(* UnexpectedNodeType for an identity that is not a sequence entry.        *)
C13_AnchorErrors ==
    ~crashed =>
        /\ \A append_id \in ArgIds, id \in ArgIds \ DOMAIN tree.id_to_node :
               /\ \A c \in Chars :
                      AnchorError(tree, append_id, {"String", "Character"},
                          InsertCharacter(tree, append_id, id, c, splitLen, joinLen).res)
               /\ \A value \in ArgValues :
                      Resolves(tree, value) =>
                          AnchorError(tree, append_id, {"Array", "ArrayEntry"},
                              InsertListItem(tree, append_id, id, value,
                                             splitLen, joinLen).res)
        /\ \A id \in ArgIds :
               /\ AnchorError(tree, id, {"Character", "ArrayEntry"},
                              DeleteCharacter(tree, id).res)
               /\ AnchorError(tree, id, {"Character", "ArrayEntry"},
                              DeleteListItem(tree, id).res)

\* C13, of anchors that belong to no sequence of the other kind: the
\* required errors are returned when a wrong-kind anchor is an object
C13_Aux_NonSequenceAnchors ==
    ~crashed =>
        /\ \A append_id \in ArgIds, id \in ArgIds \ DOMAIN tree.id_to_node :
               /\ \A c \in Chars :
                      AnchorError(tree, append_id,
                          {"String", "Character", "Array", "ArrayEntry"},
                          InsertCharacter(tree, append_id, id, c, splitLen, joinLen).res)
               /\ \A value \in ArgValues :
                      (Resolves(tree, value) /\ ~IsRef(value)) =>
                          AnchorError(tree, append_id,
                              {"String", "Character", "Array", "ArrayEntry"},
                              InsertListItem(tree, append_id, id, value,
                                             splitLen, joinLen).res)
               /\ \A value \in ArgValues :
                      (Resolves(tree, value) /\ IsRef(value)) =>
                          AnchorError(tree, append_id, {"Array", "ArrayEntry"},
                              InsertListItem(tree, append_id, id, value,
                                             splitLen, joinLen).res)
        /\ \A id \in ArgIds :
               /\ AnchorError(tree, id, {"Character", "ArrayEntry"},
                              DeleteCharacter(tree, id).res)
               /\ AnchorError(tree, id, {"Character", "ArrayEntry"},
                              DeleteListItem(tree, id).res)

-----------------------------------------------------------------------------
(* Object maps as the claims see them.                                     *)

\* the value object get reports for an assigned value: a collection with
\* the variant of its actual kind, anything else as it is
Reported(t, value) ==
    IF IsRef(value) THEN ValueRef(GetType(t, value.v), value.v) ELSE value

\* between t and t2 no map entry changed but that of `key` in `object`
OtherEntriesKept(t, t2, object, key) ==
    \A n \in DOMAIN t.nodes :
        t.nodes[n].kind = "Object" =>
            /\ n \in DOMAIN t2.nodes
            /\ \A k \in (DOMAIN t.nodes[n].items \cup DOMAIN t2.nodes[n].items) :
                   (n # t.id_to_node[object] \/ k # key) =>
                       /\ k \in DOMAIN t.nodes[n].items
                       /\ k \in DOMAIN t2.nodes[n].items
                       /\ t2.nodes[n].items[k] = t.nodes[n].items[k]

(* C14: a successful object_assign(object, key, value) returns the value   *)
(* object get(object, key) gave immediately before the call (Unset if the  *)
(* key was absent); afterwards get(object, key) returns the assigned value *)
(* (Unset for a removed key, a collection with the variant of its actual   *)
(* kind); every other key of the object and every other object's map are   *)
(* unchanged.                                                              *)
C14_AssignReturnsDisplaced ==
    ~crashed =>
        \A object \in ArgIds, key \in Keys, value \in ArgValues :
            ObjectAssign(tree, object, key, value).res = "Ok" =>
                /\ ObjectGet(tree, object, key).res = "Ok"
                /\ ObjectAssign(tree, object, key, value).val
                       = ObjectGet(tree, object, key).val
                /\ ObjectGet(ObjectAssign(tree, object, key, value).t, object, key)
                       = [res |-> "Ok",
                          val |-> Reported(ObjectAssign(tree, object, key, value).t,
                                           value)]
                /\ OtherEntriesKept(tree, ObjectAssign(tree, object, key, value).t,
                                    object, key)

\* an assignment has displaced a value, and some key holds a collection
\* that an earlier assignment put there
C14_Witness ==
    /\ last.op = "object_assign" /\ last.res = "Ok" /\ ~last.noop
    /\ last.val # ValueUnset
    /\ \E object \in DOMAIN tree.id_to_node, key \in Keys :
           /\ GetType(tree, object) = "Object"
           /\ IsRef(ObjectGet(tree, object, key).val)

-----------------------------------------------------------------------------
(* Equal operations in the log.                                            *)

\* the operations are in strictly ascending order: no two compare equal
StrictlySorted(ops) ==
    \A i \in 1..Len(ops), j \in 1..Len(ops) : i < j => OpLess(ops[i], ops[j])

\* some operation of the batch compares equal to one of `ops` or to an
\* earlier operation of the batch
HasEqual(ops, b) ==
    \E i \in 1..Len(b) :
        \/ \E k \in 1..Len(ops) : OpEqual(ops[k], b[i])
        \/ \E j \in 1..(i - 1) : OpEqual(b[j], b[i])

(* C15: Opset::edit and Opset::edit_from_iter reject, at insertion time,   *)
(* any operation that compares equal to one already in the log or to an    *)
(* earlier operation of the same batch: the call aborts, the equal         *)
(* operation is not stored, and the log never holds two operations that    *)
(* compare equal.                                                          *)
C15_EqualOpsRejected ==
    /\ StrictlySorted(log.ops)
    /\ ~opCrashed =>
           /\ \A e \in TestEdits :
                  HasEqual(log.ops, <<e>>) =>
                      /\ Edit(log, e).panic
                      /\ Edit(log, e).log.ops = log.ops
           /\ \A b \in Batches :
                  HasEqual(log.ops, b) =>
                      /\ EditFromIter(log, b).panic
                      /\ StrictlySorted(EditFromIter(log, b).log.ops)
                      /\ Len(EditFromIter(log, b).log.ops) < Len(log.ops) + Len(b)

\* a batch was aborted at an operation equal to an earlier one, after
\* operations of the same batch had been stored
C15_Witness ==
    /\ opCrashed /\ arrival.iter
    /\ Len(log.ops) > Cardinality(received)
    /\ Len(log.ops) >= 2

-----------------------------------------------------------------------------
(* One batch against one operation at a time.                              *)

\* the lists of at most n operations of S, no operation twice
DistinctLists(S, n) ==
    UNION {{b \in [1..k -> S] : \A i \in 1..k, j \in 1..k : i < j => b[i] # b[j]} :
              k \in 0..n}

\* the log after each operation of the list went through Opset::edit
RECURSIVE FeedOneByOne(_, _)
FeedOneByOne(lg, ops) ==
    IF ops = <<>> THEN lg ELSE FeedOneByOne(Edit(lg, Head(ops)).log, Tail(ops))

\* the counts of the checkpoints: the n of each cached (n, state)
CheckpointCounts(lg) == [i \in 1..Len(lg.states) |-> lg.states[i][1]]

(* C16: feeding a list of operations with distinct keys through one        *)
(* edit_from_iter call yields the same state() and the same checkpoint     *)
(* counts as feeding the same operations one by one with edit, for every   *)
(* order of the list and every cache_gap (here from every log the client   *)
(* can have built, the empty one included).                                *)
C16_BatchEqualsOneByOne ==
    ~opCrashed =>
        \A b \in DistinctLists(TestEdits \ received, MaxOps - Len(log.ops)) :
            /\ ~EditFromIter(log, b).panic
            /\ State(EditFromIter(log, b).log) = State(FeedOneByOne(log, b))
            /\ CheckpointCounts(EditFromIter(log, b).log)
                   = CheckpointCounts(FeedOneByOne(log, b))

\* a log fed by batches only, some operation arriving after a later one,
\* with checkpoints between the first and the last
C16_Witness ==
    /\ ~opCrashed
    /\ arrival.iter /\ ~arrival.edit /\ arrival.late
    /\ Cardinality(received) = MaxOps
    /\ Len(log.states) >= 3

-----------------------------------------------------------------------------
(* The replay of batches as the claims see it.                             *)

\* the batches replica r has received, in the order of the comparator
ReceivedInOrder(r) == SortOps({batches[n] : n \in SeqRange(docs[r].got)})

\* the edits of a list of batches, batch after batch
FlatEdits(ops) == Concat([i \in 1..Len(ops) |-> ops[i].edits])

\* the tree after the first n edits of the list each went through update,
\* whatever update returned
RECURSIVE AfterEdits(_, _, _)
AfterEdits(t, edits, n) ==
    IF n = 0 THEN t ELSE Update(AfterEdits(t, edits, n - 1), edits[n]).t

\* what update returns for the n-th edit of the list at its turn
OutcomeOf(t, edits, n) == Update(AfterEdits(t, edits, n - 1), edits[n])

\* the five values of TreeError
TreeErrors ==
    {"UnknownId", "UnexpectedNodeType", "DuplicateId", "NodeAlreadyHadParent",
     "EditWouldCauseCycle"}

-----------------------------------------------------------------------------
(* Assignments of primitive values to one key of one object.               *)

IsPrimitive(value) == value.tag \in {"True", "Int"}

\* the positions, in the list, of the MapInsert edits onto key of object
AssignsTo(edits, object, key) ==
    {n \in 1..Len(edits) :
         /\ edits[n].type = "MapInsert"
         /\ edits[n].parent = object
         /\ edits[n].key = key}

\* every assignment onto key of object carries a primitive value and finds
\* object in the tree, as an object, at its turn
PrimitiveAssigns(edits, object, key) ==
    \A n \in AssignsTo(edits, object, key) :
        /\ IsPrimitive(edits[n].item)
        /\ GetType(AfterEdits(NewWithRoot("Object", 0), edits, n - 1), object)
               = "Object"

\* the greatest of a non-empty set of positions
LastOf(S) == CHOOSE n \in S : \A m \in S : m <= n

(* C18: map assignment is last-write-wins under the total order of the    *)
(* log: when several MapInsert edits assign primitive values to the same   *)
(* key of the same existing object, then once all their batches have been  *)
(* delivered, in either arrival order, ObjectRef::get returns the value of *)
(* the edit that is last by (batch timestamp, position within its batch).  *)
C18_LastWriteWins ==
    \A r \in {"AB", "BA"}, object \in DocIds :
        (/\ Len(docs[r].got) = 2 /\ ~docs[r].crashed
         /\ Cardinality(AssignsTo(FlatEdits(ReceivedInOrder(r)), object, "k")) >= 2
         /\ PrimitiveAssigns(FlatEdits(ReceivedInOrder(r)), object, "k"))
            => ObjectGet(State(docs[r].log), object, "k") =
                   [res |-> "Ok",
                    val |-> FlatEdits(ReceivedInOrder(r))
                                [LastOf(AssignsTo(FlatEdits(ReceivedInOrder(r)),
                                                  object, "k"))].item]

\* the replica that received the later batch first holds both batches; each
\* assigned a primitive value to key k of the root, and the two values differ
C18_Witness ==
    \E r \in {"AB", "BA"} :
        /\ Len(docs[r].got) = 2 /\ ~docs[r].crashed
        /\ batches[docs[r].got[1]].timestamp > batches[docs[r].got[2]].timestamp
        /\ PrimitiveAssigns(FlatEdits(ReceivedInOrder(r)), 0, "k")
        /\ \A n \in {"A", "B"} :
               \E i \in 1..Len(batches[n].edits) :
                   /\ batches[n].edits[i].type = "MapInsert"
                   /\ batches[n].edits[i].parent = 0
        /\ \E i, j \in AssignsTo(FlatEdits(ReceivedInOrder(r)), 0, "k") :
               FlatEdits(ReceivedInOrder(r))[i].item
                   # FlatEdits(ReceivedInOrder(r))[j].item
        /\ ObjectGet(State(docs[r].log), 0, "k").val
               = batches[docs[r].got[1]].edits[Len(batches[docs[r].got[1]].edits)].item
        /\ ObjectGet(State(docs[r].log), 0, "k").val
               # batches[docs[r].got[2]].edits[Len(batches[docs[r].got[2]].edits)].item

-----------------------------------------------------------------------------
(* Reachability and the orphan set.                                        *)

\* the nodes reached from the nodes of S through Children links, S included
RECURSIVE DownFrom(_, _, _)
DownFrom(t, S, seen) ==
    IF S \subseteq seen THEN seen
    ELSE DownFrom(t, UNION {Children(t, n) \cap DOMAIN t.nodes : n \in S \ seen},
                  seen \cup (S \cap DOMAIN t.nodes))

\* the nodes reachable from the root through parent-child links
FromRoot(t) == DownFrom(t, {RootNode(t)}, {})

\* the members of the orphan set and the nodes they hold
Orphaned(t) == DownFrom(t, t.orphans, {})

\* every node is on exactly one side
Partitioned(t) ==
    \A n \in DOMAIN t.nodes : (n \in FromRoot(t)) # (n \in Orphaned(t))

(* C19: after every public operation, every node is either reachable from  *)
(* the root through parent-child links or a member of the orphan set,      *)
(* never both and never neither.  Read in the way most favourable to the   *)
(* claim: a node held by a member of the orphan set (the segment of an     *)
(* orphaned string, the value of a key of an orphaned object) counts with  *)
(* that member.                                                            *)
C19_ReachableOrOrphan == ~crashed => Partitioned(tree)

\* on trees in which every parent link is matched by a slot of the parent,
\* every node is on exactly one side
C19_Aux_WellLinkedPartitioned ==
    (~crashed /\ WellLinked(tree)) => Partitioned(tree)

\* never both: a member of the orphan set is a node without a parent, is
\* not the root and is not reachable from the root
C19_Aux_NeverBoth ==
    ~crashed =>
        /\ tree.orphans \subseteq DOMAIN tree.nodes
        /\ \A n \in tree.orphans : tree.nodes[n].parent = {}
        /\ FromRoot(tree) \cap Orphaned(tree) = {}

-----------------------------------------------------------------------------
(* The primitives on a build whose SPLIT_LEN and JOIN_LEN are scaled down  *)
(* (JOIN_LEN = SPLIT_LEN / 2 - 1, as 511 is to 1024), so that segments     *)
(* split within the steps explored.                                        *)

InitSmall ==
    /\ \E kind \in RootKinds : tree = NewWithRoot(kind, 0)
    /\ last = NoCall
    /\ steps = 0
    /\ crashed = FALSE
    /\ splitLen = SmallSplitLen
    /\ joinLen = (SmallSplitLen \div 2) - 1
    /\ log = New(InitialState, 0) /\ received = {} /\ arrival = NoArrival
    /\ opCrashed = FALSE
    /\ batches = NoBatches /\ docs = NoDocs

SpecSmall == InitSmall /\ [][Next]_vars

\* the segment nodes of the tree
SegmentNodes(t) ==
    {n \in DOMAIN t.nodes : t.nodes[n].kind \in {"StringSegment", "ArraySegment"}}

(* C20: after every public operation, for any sequence of inserts and      *)
(* deletes, no string or array segment's ids list (live entries plus       *)
(* tombstones) holds more than SPLIT_LEN identities.                       *)
C20_SegmentBound ==
    ~crashed => \A n \in SegmentNodes(tree) : Len(tree.nodes[n].ids) <= splitLen

\* an insert has just split a segment: a sequence holds more identities than
\* one segment may, in two or more segments, a tombstone among them
C20_Witness ==
    /\ ~crashed
    /\ last.op \in {"insert_character", "insert_list_item"} /\ last.res = "Ok"
    /\ \E c \in DOMAIN tree.nodes :
           /\ tree.nodes[c].kind \in {"String", "Array"}
           /\ Len(Segments(tree, c)) >= 2
           /\ Len(SeqIds(tree, c)) > splitLen
           /\ \E i \in 1..Len(SeqIds(tree, c)) : SeqIds(tree, c)[i].pos = {}

-----------------------------------------------------------------------------
(* The flat list a sequence stands for.                                    *)

\* the values StringRef::to_string / ArrayRef::to_vec hand out, one per
\* element: the characters of a string (a character starts at its byte 1),
\* the children of an array
SeqValues(t, container) ==
    LET contents == SeqContents(t, container)
        starts == {i \in 1..Len(contents) : contents[i][2] = 1}
        Nth(k) == CHOOSE i \in starts : Cardinality({j \in starts : j <= i}) = k
    IN  IF t.nodes[container].kind = "Array" THEN contents
        ELSE [k \in 1..Cardinality(starts) |-> contents[Nth(k)][1]]

\* the segmented sequence read as one flat list of (identity, live, value):
\* the entries of the ids lists in traversal order, the k-th live entry
\* with the k-th value handed out (none when the values run out)
FlatOf(t, container) ==
    LET ids == SeqIds(t, container)
        values == SeqValues(t, container)
        Rank(i) == Cardinality({j \in 1..i : ids[j].pos # {}})
    IN  [i \in 1..Len(ids) |->
            [id |-> ids[i].id,
             live |-> ids[i].pos # {},
             value |-> IF ids[i].pos = {} THEN {}
                       ELSE IF Rank(i) <= Len(values) THEN {values[Rank(i)]}
                       ELSE {"none"}]]

\* the reference model: a new identity goes directly after its anchor
\* (first when the anchor is the sequence itself)
FlatInsert(flat, append_id, id, value) ==
    InsertAt(flat, PlaceOf([i \in 1..Len(flat) |-> flat[i].id], append_id),
             [id |-> id, live |-> TRUE, value |-> {value}])

\* the reference model: a deleted identity stays in place, no longer live
FlatDelete(flat, id) ==
    [i \in 1..Len(flat) |->
        IF flat[i].id = id THEN [id |-> id, live |-> FALSE, value |-> {}]
        ELSE flat[i]]

\* the values of the live entries of the flat list, in order
RECURSIVE FlatValues(_)
FlatValues(flat) ==
    IF flat = <<>> THEN <<>>
    ELSE (IF Head(flat).live THEN <<The(Head(flat).value)>> ELSE <<>>)
             \o FlatValues(Tail(flat))

\* the string and array nodes of the tree
Containers(t) == {n \in DOMAIN t.nodes : IsContainer(t.nodes[n])}

\* from t to t2 the sequence of identity c went as the flat list `flat`
\* says, and no other sequence changed
FlatStep(t, t2, c, flat) ==
    /\ SequenceOf(t, c) # {}
    /\ FlatOf(t2, The(SequenceOf(t, c))) = flat
    /\ \A n \in Containers(t) \ SequenceOf(t, c) :
           n \in Containers(t2) /\ FlatOf(t2, n) = FlatOf(t, n)

(* C21: the segmented representation is equivalent to a flat list: read as *)
(* one list of (identity, live, value), a string or array is empty when    *)
(* constructed, every successful insert puts the new identity with its     *)
(* value directly after its anchor, every successful delete clears the     *)
(* identity in place, and what to_string / to_vec hand out is the values   *)
(* of the live identities in identity order; in particular there are as   *)
(* many values in the segment contents as live entries.                    *)
C21_FlatListEquivalence ==
    ~crashed =>
        /\ \A n \in Containers(tree) :
               /\ SeqValues(tree, n) = FlatValues(FlatOf(tree, n))
               /\ Len(SeqValues(tree, n)) =
                      Cardinality({i \in 1..Len(SeqIds(tree, n)) :
                                      SeqIds(tree, n)[i].pos # {}})
        /\ \A id \in ArgIds \cup {MaxId + 1} :
               /\ LET r == ConstructString(tree, id)
                  IN  r.res = "Ok" => FlatOf(r.t, r.t.id_to_node[id]) = <<>>
               /\ LET r == ConstructArray(tree, id)
                  IN  r.res = "Ok" => FlatOf(r.t, r.t.id_to_node[id]) = <<>>
        /\ \A append_id \in ArgIds, id \in ArgIds \cup {MaxId + 1}, c \in Chars :
               LET r == InsertCharacter(tree, append_id, id, c, splitLen, joinLen)
               IN  r.res = "Ok" =>
                       FlatStep(tree, r.t, append_id,
                                FlatInsert(FlatOf(tree, The(SequenceOf(tree, append_id))),
                                           append_id, id, c))
        /\ \A append_id \in ArgIds, id \in ArgIds \cup {MaxId + 1},
              value \in ArgValues \ {ValueUnset} :
               LET r == InsertListItem(tree, append_id, id, value, splitLen, joinLen)
               IN  r.res = "Ok" =>
                       FlatStep(tree, r.t, append_id,
                                FlatInsert(FlatOf(tree, The(SequenceOf(tree, append_id))),
                                           append_id, id,
                                           The(ValueToChild(tree, value).child)))
        /\ \A id \in ArgIds :
               /\ LET r == DeleteCharacter(tree, id)
                  IN  r.res = "Ok" =>
                          FlatStep(tree, r.t, id,
                                   FlatDelete(FlatOf(tree, The(SequenceOf(tree, id))), id))
               /\ LET r == DeleteListItem(tree, id)
                  IN  r.res = "Ok" =>
                          FlatStep(tree, r.t, id,
                                   FlatDelete(FlatOf(tree, The(SequenceOf(tree, id))), id))

\* a delete has just left a tombstone in a sequence of two or more
\* segments that still has two live entries
C21_Witness ==
    /\ ~crashed
    /\ last.op \in {"delete_character", "delete_list_item"}
    /\ last.res = "Ok" /\ ~last.noop
    /\ \E n \in Containers(tree) :
           /\ Len(Segments(tree, n)) >= 2
           /\ Len(SeqValues(tree, n)) = 2
           /\ \E i \in 1..Len(SeqIds(tree, n)) : SeqIds(tree, n)[i].pos = {}

-----------------------------------------------------------------------------
(* The root.                                                               *)

\* the root identity resolves to a collection without a parent that is not
\* in the orphan set
RootResolves(t) ==
    /\ GetType(t, t.root) \in RootKinds
    /\ GetParent(t, t.root) = [res |-> "Ok", parent |-> {}]
    /\ RootNode(t) \notin t.orphans

(* C22: the root identity given at construction always resolves: after any *)
(* sequence of operations, delete_orphans included, get_type(root) returns *)
(* the constructed kind, get_parent(root) is none, and the root is never a *)
(* member of the orphan set.                                               *)
C22_RootAlwaysResolves ==
    /\ RootResolves(tree)
    /\ [][~crashed' => /\ RootResolves(tree')
                       /\ tree'.root = tree.root
                       /\ GetType(tree', tree'.root) = GetType(tree, tree.root)]_vars

\* delete_orphans has just deleted a collection, or a call that named the
\* root as its value has just failed; the root holds an entry
C22_Witness ==
    /\ ~crashed
    /\ \/ last.op = "delete_orphans" /\ ~last.noop
       \/ last.op = "object_assign" /\ last.res = "EditWouldCauseCycle"
    /\ \/ DOMAIN tree.nodes[RootNode(tree)].items # {}
       \/ /\ IsContainer(tree.nodes[RootNode(tree)])
          /\ SeqIds(tree, RootNode(tree)) # <<>>

-----------------------------------------------------------------------------
(* Edits that name only identities in use and create only identities not   *)
(* in use.                                                                 *)

\* an identity in use / an identity not in use
Known(t) == Ids \cap DOMAIN t.id_to_node

Fresh(t) == ArgIds \ DOMAIN t.id_to_node

\* a value that names no identity, or one in use
KnownValue(t, value) == IsRef(value) => value.v \in Known(t)

\* every identity in use has the type it had
TypesKept(t, t2) == \A id \in Known(t) : GetType(t2, id) = GetType(t, id)

\* the property `Holds(r)` of the outcome r of every such edit of the tree
OfCleanEdits(t, Holds(_)) ==
    /\ \A id \in Fresh(t) :
           /\ Holds(ConstructObject(t, id))
           /\ Holds(ConstructString(t, id))
           /\ Holds(ConstructArray(t, id))
    /\ \A object \in Known(t), key \in Keys, value \in ArgValues :
           KnownValue(t, value) => Holds(ObjectAssign(t, object, key, value))
    /\ \A append_id \in Known(t), id \in Fresh(t) :
           /\ \A c \in Chars :
                  Holds(InsertCharacter(t, append_id, id, c, splitLen, joinLen))
           /\ \A value \in ArgValues :
                  KnownValue(t, value) =>
                      Holds(InsertListItem(t, append_id, id, value, splitLen, joinLen))
    /\ \A id \in Known(t) :
           /\ Holds(DeleteCharacter(t, id))
           /\ Holds(DeleteListItem(t, id))

(* C23, as stated: for every sequence of edits that never reuses an        *)
(* identity and never names an unknown identity, every primitive call      *)
(* returns success, and every identity created so far keeps its type from  *)
(* get_type.                                                               *)
C23_CleanEditsSucceed ==
    ~crashed =>
        LET Holds(r) == r.res = "Ok" /\ TypesKept(tree, r.t)
        IN  OfCleanEdits(tree, Holds)

(* C23, amended: for every sequence of edits that never reuses an identity *)
(* and never names an unknown identity, no primitive call fails with       *)
(* DuplicateId or UnknownId (it can fail with UnexpectedNodeType,          *)
(* NodeAlreadyHadParent or EditWouldCauseCycle), and after every call that *)
(* returns, successful or not, every identity created so far keeps its     *)
(* type from get_type.                                                     *)
C23_CleanEditsNoIdErrors ==
    ~crashed =>
        LET Holds(r) == /\ r.res \notin {"DuplicateId", "UnknownId"}
                        /\ r.res # "Panic" => TypesKept(tree, r.t)
        IN  OfCleanEdits(tree, Holds)

\* an object_assign (it names two identities in use and creates none) has
\* just failed because its value had a parent; four identities are in use
C23_Witness ==
    /\ ~crashed
    /\ last.op = "object_assign" /\ last.res = "NodeAlreadyHadParent"
    /\ Cardinality(DOMAIN tree.id_to_node) >= 3

-----------------------------------------------------------------------------
(* A string edited with characters of every UTF-8 width, on the build with *)
(* the scaled SPLIT_LEN.                                                   *)

WideChars == {"a", "e2", "e3", "e4"}

InitText ==
    /\ tree = NewWithRoot("String", 0)
    /\ last = NoCall
    /\ steps = 0
    /\ crashed = FALSE
    /\ splitLen = SmallSplitLen
    /\ joinLen = (SmallSplitLen \div 2) - 1
    /\ log = New(InitialState, 0) /\ received = {} /\ arrival = NoArrival
    /\ opCrashed = FALSE
    /\ batches = NoBatches /\ docs = NoDocs

NextText ==
    \/ \E append_id \in ArgIds, id \in ArgIds, c \in WideChars :
           DoInsertCharacter(append_id, id, c)
    \/ \E id \in ArgIds : DoDeleteCharacter(id)

SpecText == InitText /\ [][NextText]_vars

\* from the contents index `offset` on, the live entries of the ids list
\* stand, in order, exactly where the complete encodings of their characters
\* start, and nothing is left over at the end
RECURSIVE PositionsSound(_, _, _)
PositionsSound(ids, contents, offset) ==
    IF ids = <<>> THEN offset = Len(contents)
    ELSE IF Head(ids).pos = {} THEN PositionsSound(Tail(ids), contents, offset)
    ELSE /\ Head(ids).pos = {offset}
         /\ offset < Len(contents)
         /\ contents[offset + 1][2] = 1
         /\ offset + LenUtf8(contents[offset + 1][1]) <= Len(contents)
         /\ \A k \in 1..LenUtf8(contents[offset + 1][1]) :
                contents[offset + k] = <<contents[offset + 1][1], k>>
         /\ PositionsSound(Tail(ids), contents,
                           offset + LenUtf8(contents[offset + 1][1]))

\* every string segment of the tree is sound
StringsSound(t) ==
    \A n \in DOMAIN t.nodes :
        t.nodes[n].kind = "StringSegment" =>
            PositionsSound(t.nodes[n].ids, t.nodes[n].contents, 0)

(* C24: for every string segment, after any sequence of inserts, deletes   *)
(* and splits with characters of any UTF-8 width (1 to 4 bytes), each live *)
(* position in the ids list equals the sum of the UTF-8 byte lengths of    *)
(* the live characters that precede it in that segment, so that every live *)
(* position lies on a character boundary and the contents stay valid       *)
(* UTF-8; no call panics on the way.                                       *)
C24_Utf8Positions ==
    /\ ~crashed
    /\ StringsSound(tree)
    /\ \A append_id \in Known(tree), c \in WideChars :
           LET r == InsertCharacter(tree, append_id, MaxId + 1, c, splitLen, joinLen)
           IN  r.res = "Ok" /\ StringsSound(r.t)

\* a delete has just left a tombstone in a string that was split, and two
\* live characters of different widths, one of them of more than two bytes,
\* remain
C24_Witness ==
    /\ ~crashed
    /\ last.op = "delete_character" /\ ~last.noop
    /\ Len(Segments(tree, RootNode(tree))) >= 2
    /\ \E c \in {"e3", "e4"}, d \in WideChars :
           c # d /\ {c, d} \subseteq SeqRange(SeqValues(tree, RootNode(tree)))

-----------------------------------------------------------------------------
(* src/src/json/value.rs: StringIndex, a position in a string named by the *)
(* identity of the string or of one of its characters.                     *)

\* an outcome of a StringIndex method: Ok with an identity, a TreeError or
\* a panic
Index(res, id) == [res |-> res, id |-> id]

\* the loop of adjacent_next at entry idx (0-based) of node this_node;
\* `fuel` bounds the walk, which passes every entry and node at most once
RECURSIVE AdjacentLoop(_, _, _, _, _, _)
AdjacentLoop(t, self, this_node, idx, backwards, fuel) ==
    LET this == t.nodes[this_node]
        Within == \/ backwards /\ idx > 0
                  \/ ~backwards /\ idx + 1 < Len(this.ids)
        next_node ==
            IF this.kind = "String" THEN this.start
            ELSE IF Within THEN this_node
            ELSE IF backwards THEN this.prev ELSE this.next
        next_index ==
            IF this.kind = "String" \/ ~Within THEN {}
            ELSE {IF backwards THEN idx - 1 ELSE idx + 1}
        Arrive(next, i) ==
            IF Len(next.ids) > 0 /\ next.ids[i + 1].pos # {}
            THEN Index("Ok", next.ids[i + 1].id)
            ELSE AdjacentLoop(t, self, next_node, i, backwards, fuel - 1)
        Match(next) ==
            CASE this.kind = "String" /\ next.kind = "String" -> Index("Panic", self)
              [] this.kind = "StringSegment" /\ next.kind = "String" ->
                     IF backwards THEN Index("Ok", The(next.id))
                     ELSE IF idx < Len(this.ids) THEN Index("Ok", this.ids[idx + 1].id)
                     ELSE Index("Panic", self)
              [] next.kind = "StringSegment" ->
                     Arrive(next, IF next_index # {} THEN The(next_index)
                                  ELSE IF backwards /\ Len(next.ids) > 0
                                  THEN Len(next.ids) - 1 ELSE 0)
              [] OTHER -> Index("Panic", self)
    IN  IF fuel = 0 THEN Index("Diverges", self)
        ELSE IF this.kind = "String" /\ backwards THEN Index("Ok", self)
        ELSE IF this.kind \notin {"String", "StringSegment"}
        THEN Index("UnexpectedNodeType", self)
        ELSE IF next_node \notin DOMAIN t.nodes THEN Index("Panic", self)
        ELSE Match(t.nodes[next_node])

\* StringIndex::adjacent_next
AdjacentNext(t, self, backwards) ==
    IF IdToNode(t, self) = {} THEN Index("UnknownId", self)
    ELSE IF t.id_to_node[self] \notin DOMAIN t.nodes THEN Index("Panic", self)
    ELSE LET node_id == t.id_to_node[self]
             fuel == 2 * Cardinality(DOMAIN t.nodes) + Cardinality(DOMAIN t.id_to_node) + 2
         IN  CASE t.nodes[node_id].kind = "StringSegment" ->
                      IF IndexOfId(t.nodes[node_id].ids, self) = {}
                      THEN Index("Panic", self)
                      ELSE AdjacentLoop(t, self, node_id,
                                        The(IndexOfId(t.nodes[node_id].ids, self)) - 1,
                                        backwards, fuel)
               [] t.nodes[node_id].kind = "String" ->
                      AdjacentLoop(t, self, node_id, 0, backwards, fuel)
               [] OTHER -> Index("UnexpectedNodeType", self)

\* StringIndex::still_exists: "True", "False" or "Panic"
StillExists(t, self) ==
    IF IdToNode(t, self) = {} THEN "False"
    ELSE IF t.id_to_node[self] \notin DOMAIN t.nodes THEN "Panic"
    ELSE LET node == t.nodes[t.id_to_node[self]]
         IN  CASE node.kind = "StringSegment" ->
                      IF IndexOfId(node.ids, self) = {} THEN "Panic"
                      ELSE IF node.ids[The(IndexOfId(node.ids, self))].pos # {}
                      THEN "True" ELSE "False"
               [] node.kind = "String" -> "True"
               [] OTHER -> "False"

\* the while loop of adjacent
RECURSIVE AdjacentSteps(_, _, _)
AdjacentSteps(t, i, num) ==
    LET Moved(r) ==
            IF r.res # "Ok" THEN r
            ELSE AdjacentSteps(t, r.id, IF num > 0 THEN num - 1 ELSE num + 1)
    IN  IF num = 0 THEN Index("Ok", i) ELSE Moved(AdjacentNext(t, i, num < 0))

\* StringIndex::adjacent
Adjacent(t, self, num) ==
    IF num > 0 /\ StillExists(t, self) = "Panic" THEN Index("Panic", self)
    ELSE AdjacentSteps(t, self,
                       IF num > 0 /\ StillExists(t, self) = "False" THEN num + 1 ELSE num)

\* the positions of the strings of the tree: the identities of strings and
\* of their characters, live or tombstoned
StringPositions(t) ==
    {id \in Known(t) : GetType(t, id) \in {"String", "Character"}}

\* the outcome names the string of `self` or a live character of it
OnStringOrLive(t, self, r) ==
    /\ r.res = "Ok"
    /\ r.id \in StringPositions(t)
    /\ SequenceOf(t, r.id) = SequenceOf(t, self)
    /\ StillExists(t, r.id) = "True"

(* C25: StringIndex::adjacent(n) with n # 0 skips tombstones and stops at  *)
(* the ends of the string: from any position (the string itself, a live    *)
(* character or a tombstone) it returns without failing, and the identity  *)
(* it returns is the string's own identity or a live character of the same *)
(* string, also for an empty string and for a string whose last identities *)
(* are tombstones.                                                         *)
C25_AdjacentSkipsTombstones ==
    ~crashed =>
        \A self \in StringPositions(tree), num \in (0 - MaxMove)..MaxMove :
            num # 0 => OnStringOrLive(tree, self, Adjacent(tree, self, num))

\* C25, of moves towards the start of the string
C25_Aux_Backwards ==
    ~crashed =>
        \A self \in StringPositions(tree), num \in (0 - MaxMove)..(0 - 1) :
            OnStringOrLive(tree, self, Adjacent(tree, self, num))

\* C25, of moves towards the end of a string whose last identity is live
C25_Aux_ForwardsLiveEnd ==
    ~crashed =>
        \A self \in StringPositions(tree), num \in 1..MaxMove :
            LET ids == SeqIds(tree, The(SequenceOf(tree, self)))
            IN  (ids # <<>> /\ ids[Len(ids)].pos # {}) =>
                    OnStringOrLive(tree, self, Adjacent(tree, self, num))

\* a move towards the end of a string never fails with a TreeError or walks
\* on for ever: it panics only on a string without identities, and names a
\* tombstone only when the last identity of the string is one
C25_Aux_ForwardsOutcomes ==
    ~crashed =>
        \A self \in StringPositions(tree), num \in 1..MaxMove :
            LET ids == SeqIds(tree, The(SequenceOf(tree, self)))
                r == Adjacent(tree, self, num)
            IN  /\ r.res \in {"Ok", "Panic"}
                /\ r.res = "Panic" <=> ids = <<>>
                /\ (r.res = "Ok" /\ ~OnStringOrLive(tree, self, r)) =>
                       /\ ids[Len(ids)].pos = {}
                       /\ r.id = ids[Len(ids)].id

-----------------------------------------------------------------------------
(* C26: after every Opset::edit and Opset::edit_from_iter call, the ops     *)
(* vector is strictly ascending under the comparator, the checkpoint       *)
(* vector is non-empty, and its last checkpoint has an applied-count equal *)
(* to |ops|: it is the head, whose state state() returns.                  *)
C26_SortedOpsAndHead ==
    ~opCrashed =>
        /\ StrictlySorted(log.ops)
        /\ log.ops = SortOps(received)
        /\ Len(log.states) >= 1
        /\ Last(log.states)[1] = Len(log.ops)

\* edit and edit_from_iter have both returned, an operation arrived after
\* one that is greater, and the log holds three or more operations
C26_Witness ==
    /\ ~opCrashed
    /\ arrival.edit /\ arrival.iter /\ arrival.late
    /\ Len(log.ops) >= 3
    /\ Last(log.states)[1] = Len(log.ops)

-----------------------------------------------------------------------------
(* C27: at every reachable state of the log, every checkpoint (k, s) of    *)
(* the checkpoint vector has s equal to the initial state with the first k *)
(* operations of the current sorted log applied in order; the checkpoint   *)
(* counts are strictly increasing and the first checkpoint is always       *)
(* (0, initial state).                                                     *)
C27_CheckpointsArePrefixes ==
    ~opCrashed =>
        /\ log.states[1] = <<0, InitialState>>
        /\ \A i \in 1..Len(log.states) :
               /\ log.states[i][1] \in 0..Len(log.ops)
               /\ log.states[i][2] =
                      ApplyAll(InitialState, SubSeq(log.ops, 1, log.states[i][1]))
        /\ \A i \in 1..(Len(log.states) - 1) :
               log.states[i][1] < log.states[i + 1][1]

\* an operation has arrived after a greater one, so that checkpoints were
\* dropped and rebuilt, and the log holds a checkpoint between the first
\* and the head that is not the state of the whole log
C27_Witness ==
    /\ ~opCrashed
    /\ arrival.late
    /\ Len(log.states) >= 3
    /\ \E i \in 2..(Len(log.states) - 1) :
           /\ log.states[i][1] >= 1
           /\ log.states[i][2] # State(log)

-----------------------------------------------------------------------------
\* the differences between the applied-counts of adjacent checkpoints
CheckpointGaps(lg) ==
    {lg.states[i + 1][1] - lg.states[i][1] : i \in 1..(Len(lg.states) - 1)}

(* C28: after every Opset::edit and Opset::edit_from_iter call, the        *)
(* applied-counts of any two adjacent checkpoints differ by at most        *)
(* cache_gap operations.                                                   *)
C28_GapAtMostCacheGap ==
    ~opCrashed => \A d \in CheckpointGaps(log) : d <= log.cache_gap

(* C28, amended: after every Opset::edit and Opset::edit_from_iter call,   *)
(* the applied-counts of any two adjacent checkpoints differ by at least 1 *)
(* and, for cache_gap >= 1, by at most cache_gap; for cache_gap = 0 they   *)
(* differ by exactly 1.                                                    *)
C28_GapAtMostCacheGapOrOne ==
    ~opCrashed =>
        \A d \in CheckpointGaps(log) :
            /\ d >= 1
            /\ d <= (IF log.cache_gap = 0 THEN 1 ELSE log.cache_gap)

\* a log with cache_gap 2 whose checkpoints, rebuilt after a late arrival,
\* lie both a full gap and less than a full gap apart
C28_Witness ==
    /\ ~opCrashed
    /\ arrival.late
    /\ log.cache_gap = 2
    /\ CheckpointGaps(log) = {1, 2}

-----------------------------------------------------------------------------
\* the checkpoints recalculate keeps: those up to and including the last
\* one at or before the insert point
Kept(lg, insert_point) ==
    SubSeq(lg.states, 1,
           IF FirstBadState(lg.states, insert_point) < Len(lg.states)
           THEN FirstBadState(lg.states, insert_point)
           ELSE Len(lg.states))

\* the replay loop of recalculate(insert_point) stopped as applied_ops
\* reaches applied: its last entry is (applied, state), the entries before
\* it are the states vector at that point of the loop
ReplayUpTo(lg, insert_point, applied) ==
    ReplayLoop(SubSeq(lg.ops, 1, applied), lg.cache_gap,
               Front(Kept(lg, insert_point)),
               Last(Kept(lg, insert_point))[1], Last(Kept(lg, insert_point))[2])

\* the iterations of the loop: the values applied_ops takes in its body
Iterations(lg, insert_point) ==
    Last(Kept(lg, insert_point))[1]..(Len(lg.ops) - 1)

\* the states vector before and after the body's if at applied_ops = applied
StatesBefore(lg, insert_point, applied) ==
    Front(ReplayUpTo(lg, insert_point, applied))

StatesAfter(lg, insert_point, applied) ==
    Front(ReplayUpTo(lg, insert_point, applied + 1))

\* the logs on which a call of edit or edit_from_iter runs recalculate, with
\* the insert point it passes
Recalculations(lg) ==
    {[log |-> [lg EXCEPT !.ops = InsertAt(lg.ops, BinarySearch(lg.ops, e).idx, e)],
      insert_point |-> BinarySearch(lg.ops, e).idx] :
         e \in {x \in TestEdits : ~BinarySearch(lg.ops, x).found}}
    \cup
    {[log |-> EditFromIterLoop(lg, b, {}).log,
      insert_point |-> CHOOSE p \in EditFromIterLoop(lg, b, {}).least : TRUE] :
         b \in {x \in Batches : /\ ~EditFromIterLoop(lg, x, {}).panic
                                /\ EditFromIterLoop(lg, x, {}).least # {}}}

\* every iteration of every recalculation pushes (applied, current state)
\* exactly when Due holds of the states vector, and nothing otherwise
PushesWhen(lg, Due(_, _, _)) ==
    \A rc \in Recalculations(lg) :
        \A applied \in Iterations(rc.log, rc.insert_point) :
            StatesAfter(rc.log, rc.insert_point, applied) =
                IF Due(StatesBefore(rc.log, rc.insert_point, applied),
                       rc.log.cache_gap, applied)
                THEN Append(StatesBefore(rc.log, rc.insert_point, applied),
                            <<applied,
                              Last(ReplayUpTo(rc.log, rc.insert_point, applied))[2]>>)
                ELSE StatesBefore(rc.log, rc.insert_point, applied)

(* C29: during recompute, before ops[applied] is applied, a new checkpoint *)
(* (applied, current state) is pushed exactly when no checkpoint remains   *)
(* or the top checkpoint was taken more than cache_gap operations ago      *)
(* (applied - top.count > cache_gap); otherwise none is pushed.            *)
C29_PushWhenMoreThanGap ==
    LET Due(states, cache_gap, applied) ==
            \/ Len(states) = 0
            \/ applied - Last(states)[1] > cache_gap
    IN  ~opCrashed => PushesWhen(log, Due)

(* C29, amended: during recompute, before ops[applied] is applied, a new   *)
(* checkpoint (applied, current state) is pushed exactly when no           *)
(* checkpoint remains or the top checkpoint was taken at least cache_gap   *)
(* operations ago (applied - top.count >= cache_gap); otherwise none is    *)
(* pushed.                                                                 *)
C29_PushWhenAtLeastGap ==
    LET Due(states, cache_gap, applied) ==
            \/ Len(states) = 0
            \/ applied - Last(states)[1] >= cache_gap
    IN  ~opCrashed => PushesWhen(log, Due)

\* a log rebuilt after a late arrival on which a further call runs a
\* recalculation with three kinds of iteration: one with no checkpoint
\* left, one whose top checkpoint is exactly cache_gap operations old, and
\* one whose top checkpoint is younger and nothing is pushed
C29_Witness ==
    /\ ~opCrashed
    /\ arrival.late
    /\ log.cache_gap = 2
    /\ \E rc \in Recalculations(log) :
           /\ \E a \in Iterations(rc.log, rc.insert_point) :
                  Len(StatesBefore(rc.log, rc.insert_point, a)) = 0
           /\ \E a \in Iterations(rc.log, rc.insert_point) :
                  /\ Len(StatesBefore(rc.log, rc.insert_point, a)) > 0
                  /\ a - Last(StatesBefore(rc.log, rc.insert_point, a))[1] = 2
                  /\ Len(StatesAfter(rc.log, rc.insert_point, a)) =
                         Len(StatesBefore(rc.log, rc.insert_point, a)) + 1
           /\ \E a \in Iterations(rc.log, rc.insert_point) :
                  StatesAfter(rc.log, rc.insert_point, a) =
                      StatesBefore(rc.log, rc.insert_point, a)

-----------------------------------------------------------------------------
\* the applied-counts a log of n operations holds checkpoints at when
\* cache_gap is g: the multiples of g smaller than n, and the head n
LayoutCounts(n, g) == {m \in 0..(n - 1) : m % g = 0} \cup {n}

(* C30: the checkpoint layout depends only on n = |ops| and cache_gap      *)
(* g >= 1, not on arrival order or batching: after any sequence of edit /  *)
(* edit_from_iter calls with n >= 1 the checkpoint counts are exactly the  *)
(* multiples of g that are smaller than n, plus the head n, so there are   *)
(* floor((n - 1) / g) + 2 checkpoints.                                     *)
C30_LayoutFromLength ==
    LET Laid(lg, ops) ==
            /\ SeqRange(CheckpointCounts(lg)) =
                   LayoutCounts(Len(lg.ops), lg.cache_gap)
            /\ Len(lg.states) = ((Len(lg.ops) - 1) \div lg.cache_gap) + 2
            /\ CheckpointCounts(lg) =
                   CheckpointCounts(FeedSorted(New(InitialState, lg.cache_gap),
                                               SortOps(ops)))
    IN  (~opCrashed /\ log.cache_gap >= 1) =>
            /\ Len(log.ops) >= 1 => Laid(log, received)
            /\ \A e \in TestEdits \ received :
                   Laid(Edit(log, e).log, received \cup {e})

\* a log with cache_gap 2 that got its operations through both methods,
\* one of them after a greater one, and whose length is not a multiple of
\* the gap: checkpoints at 0, 2 and the head 3
C30_Witness ==
    /\ ~opCrashed
    /\ arrival.edit /\ arrival.iter /\ arrival.late
    /\ log.cache_gap = 2
    /\ Len(log.ops) = 3
    /\ CheckpointCounts(log) = <<0, 2, 3>>

-----------------------------------------------------------------------------
\* the count of the last checkpoint of states taken at or before p
LastCountAtOrBefore(states, p) ==
    CHOOSE c \in {states[i][1] : i \in 1..Len(states)} :
        /\ c <= p
        /\ \A i \in 1..Len(states) : states[i][1] <= p => states[i][1] <= c

\* the checkpoint of states with count c
CheckpointAt(states, c) ==
    states[CHOOSE i \in 1..Len(states) : states[i][1] = c]

(* C31: an insertion at sorted position p replays only a suffix: the       *)
(* operations applied by the recompute are exactly those at indices        *)
(* c..|ops|-1, where c is the count of the last checkpoint with count      *)
(* <= p; no operation at an index below c is applied again, checkpoints    *)
(* with count below c are left untouched, and fewer than                   *)
(* max(cache_gap, 1) of the re-applied operations sort before the          *)
(* inserted one.                                                           *)
C31_ReplayOnlySuffix ==
    LET Suffix(rc, c, after) ==
            \* the loop restarts at the checkpoint with count c
            /\ Last(Kept(rc.log, rc.insert_point)) = CheckpointAt(log.states, c)
            /\ Iterations(rc.log, rc.insert_point) = c..(Len(rc.log.ops) - 1)
            \* and applies ops[c..] to its state, each once
            /\ State(after) =
                   ApplyAll(CheckpointAt(log.states, c)[2],
                            SubSeq(rc.log.ops, c + 1, Len(rc.log.ops)))
            /\ Len(State(after)) =
                   Len(CheckpointAt(log.states, c)[2]) + (Len(rc.log.ops) - c)
            \* the checkpoints below c stay where and what they were
            /\ \A i \in 1..Len(log.states) :
                   log.states[i][1] < c =>
                       /\ i <= Len(after.states)
                       /\ after.states[i] = log.states[i]
            /\ \A i \in 1..Len(after.states) :
                   after.states[i][1] < c =>
                       /\ i <= Len(log.states)
                       /\ after.states[i] = log.states[i]
            \* the re-applied operations before the inserted one
            /\ rc.insert_point - c >= 0
            /\ rc.insert_point - c <
                   (IF log.cache_gap = 0 THEN 1 ELSE log.cache_gap)
    IN  ~opCrashed =>
            \A rc \in Recalculations(log) :
                /\ ~Recalculate(rc.log, rc.insert_point).panic
                /\ Suffix(rc, LastCountAtOrBefore(log.states, rc.insert_point),
                          Recalculate(rc.log, rc.insert_point).log)

\* a log with cache_gap 2 and checkpoints at 0, 2 and the head 4, rebuilt
\* after a late arrival, into which an operation can be inserted at sorted
\* position 3: the replay restarts at 2 and re-applies one operation that
\* sorts before the inserted one
C31_Witness ==
    /\ ~opCrashed
    /\ arrival.late
    /\ log.cache_gap = 2
    /\ CheckpointCounts(log) = <<0, 2, 4>>
    /\ \E rc \in Recalculations(log) :
           /\ rc.insert_point = 3
           /\ Last(Kept(rc.log, rc.insert_point))[1] = 2
           /\ Len(Recalculate(rc.log, rc.insert_point).log.ops) = 5

-----------------------------------------------------------------------------
\* the sequence `container` is a ring: following next from its first
\* segment visits each of its segments once and comes back to the
\* container, and prev leads back the same way
Ring(t, container) ==
    LET segs == Segments(t, container)
    IN  /\ Len(segs) >= 1
        /\ \A i \in 1..Len(segs) :
               /\ segs[i] \in DOMAIN t.nodes
               /\ t.nodes[segs[i]].kind = SegmentKindOf(t.nodes[container].kind)
               /\ t.nodes[segs[i]].prev =
                      (IF i = 1 THEN container ELSE segs[i - 1])
               /\ t.nodes[segs[i]].next =
                      (IF i = Len(segs) THEN container ELSE segs[i + 1])
        /\ \A i, j \in 1..Len(segs) : segs[i] = segs[j] => i = j
        /\ t.nodes[container].start = segs[1]
        /\ t.nodes[container].end = segs[Len(segs)]
        /\ \A n \in SegmentNodes(t) :
               t.nodes[n].parent = {container} => n \in SeqRange(segs)

\* every sequence is a ring and every segment is a segment of a sequence
Rings(t) ==
    /\ \A c \in Containers(t) : Ring(t, c)
    /\ \A n \in SegmentNodes(t) :
           \E c \in Containers(t) : t.nodes[n].parent = {c}

(* C32: after every public operation, each string or array is a            *)
(* well-formed ring: starting at the container's first segment and         *)
(* following next visits every segment of that sequence exactly once and   *)
(* ends at the container; prev is the inverse of next; the container is    *)
(* the prev of the first segment and the next of the last segment; and a   *)
(* sequence always has at least one segment.                               *)
C32_SequencesAreRings ==
    ~crashed =>
        /\ Rings(tree)
        /\ \A append_id \in Known(tree) :
               LET Kept32(r) == r.res # "Panic" => Rings(r.t)
               IN  /\ Kept32(InsertCharacter(tree, append_id, MaxId + 1, "a",
                                             splitLen, joinLen))
                   /\ Kept32(InsertListItem(tree, append_id, MaxId + 1, ValueTrue,
                                            splitLen, joinLen))

\* an insert has just split a segment, and a further insert splits one of
\* the two again, which leaves the sequence with three segments
C32_Witness ==
    /\ ~crashed
    /\ last.op \in {"insert_character", "insert_list_item"} /\ last.res = "Ok"
    /\ \E c \in Containers(tree) :
           /\ Len(Segments(tree, c)) = 2
           /\ \E append_id \in Known(tree) :
                  LET r == InsertCharacter(tree, append_id, MaxId + 1, "a",
                                           splitLen, joinLen)
                  IN  /\ r.res = "Ok"
                      /\ Len(Segments(r.t, c)) = 3
                      /\ Ring(r.t, c)

-----------------------------------------------------------------------------
\* the places (segment node, index in its ids list) where an identity stands
PlacesOf(t, id) ==
    UNION {{<<n, i>> : i \in {j \in 1..Len(t.nodes[n].ids) :
                                  t.nodes[n].ids[j].id = id}} :
              n \in SegmentNodes(t)}

\* the identities of characters and array entries: those standing in an ids
\* list, and those the identity map sends to a segment
EntryIds(t) ==
    UNION {IdsOf(t.nodes[n]) : n \in SegmentNodes(t)}
        \cup {id \in DOMAIN t.id_to_node : t.id_to_node[id] \in SegmentNodes(t)}

\* the identity stands in one place, the identity map sends it to that
\* segment, the segment is one of a container's, and get_parent says so
EntryResolves(t, id) ==
    /\ Cardinality(PlacesOf(t, id)) = 1
    /\ \A pl \in PlacesOf(t, id) :
           /\ IdToNode(t, id) = {pl[1]}
           /\ \E c \in Containers(t) :
                  /\ t.nodes[pl[1]].parent = {c}
                  /\ pl[1] \in SeqRange(Segments(t, c))
                  /\ GetParent(t, id) = [res |-> "Ok", parent |-> t.nodes[c].id]
                  /\ t.nodes[c].id # {}

EntriesResolve(t) == \A id \in EntryIds(t) : EntryResolves(t, id)

(* C33: identity-to-segment lookup survives splits and joins: at every     *)
(* reachable state each character or array-entry identity (live or         *)
(* tombstoned) occurs exactly once, in exactly one segment's ids list, the *)
(* identity map sends it to that segment, and that segment's parent is the *)
(* sequence container, so get_parent of the entry returns the container's  *)
(* identity.                                                               *)
C33_EntriesResolve ==
    ~crashed =>
        /\ EntriesResolve(tree)
        /\ \A append_id \in Known(tree) :
               LET Kept33(r) == r.res # "Panic" => EntriesResolve(r.t)
               IN  /\ Kept33(InsertCharacter(tree, append_id, MaxId + 1, "a",
                                             splitLen, joinLen))
                   /\ Kept33(InsertListItem(tree, append_id, MaxId + 1, ValueTrue,
                                            splitLen, joinLen))

\* an insert has just split a segment: a tombstone and a live entry stand in
\* different segments of one sequence, the identity map sends one of them
\* to the segment the split made, and get_parent of both is the container
C33_Witness ==
    /\ ~crashed
    /\ last.op \in {"insert_character", "insert_list_item"} /\ last.res = "Ok"
    /\ \E c \in Containers(tree) :
           \E a, b \in Known(tree) :
               /\ a # b
               /\ IdToNode(tree, a) # IdToNode(tree, b)
               /\ The(IdToNode(tree, a)) \in SeqRange(Segments(tree, c))
               /\ The(IdToNode(tree, b)) \in SeqRange(Segments(tree, c))
               /\ The(IdToNode(tree, b)) # tree.nodes[c].start
               /\ \E i \in 1..Len(SeqIds(tree, c)) :
                      SeqIds(tree, c)[i].id \in {a, b} /\ SeqIds(tree, c)[i].pos = {}
               /\ \E i \in 1..Len(SeqIds(tree, c)) :
                      SeqIds(tree, c)[i].id \in {a, b} /\ SeqIds(tree, c)[i].pos # {}
               /\ GetParent(tree, a) = GetParent(tree, b)
               /\ GetParent(tree, a).parent = tree.nodes[c].id

-----------------------------------------------------------------------------
\* the Some positions of an ids list are indices into contents and grow
\* strictly along the list
PositionsOrdered(ids, contents) ==
    /\ \A i \in 1..Len(ids) :
           ids[i].pos # {} =>
               The(ids[i].pos) >= 0 /\ The(ids[i].pos) < Len(contents)
    /\ \A i, j \in 1..Len(ids) :
           (i < j /\ ids[i].pos # {} /\ ids[j].pos # {}) =>
               The(ids[i].pos) < The(ids[j].pos)

SegmentsOrdered(t) ==
    \A n \in SegmentNodes(t) :
        PositionsOrdered(t.nodes[n].ids, t.nodes[n].contents)

(* C34: after every insert, delete, split and join, for each               *)
(* (identity, Some(pos)) in a segment's ids list pos is a valid index into *)
(* that segment's contents, and the positions read in ids-list order and   *)
(* filtered to Some are strictly increasing.                               *)
C34_PositionsValidAndIncreasing ==
    ~crashed =>
        /\ SegmentsOrdered(tree)
        /\ \A id \in Known(tree) :
               LET Kept34(r) == r.res # "Panic" => SegmentsOrdered(r.t)
               IN  /\ Kept34(InsertCharacter(tree, id, MaxId + 1, "e3",
                                             splitLen, joinLen))
                   /\ Kept34(InsertListItem(tree, id, MaxId + 1, ValueTrue,
                                            splitLen, joinLen))
                   /\ Kept34(DeleteCharacter(tree, id))
                   /\ Kept34(DeleteListItem(tree, id))

\* a delete has just removed an entry that stood before a live one in the
\* same segment, whose position moved down
C34_Witness ==
    /\ ~crashed
    /\ last.op \in {"delete_character", "delete_list_item"}
    /\ last.res = "Ok" /\ ~last.noop
    /\ \E n \in SegmentNodes(tree) :
           \E i, j \in 1..Len(tree.nodes[n].ids) :
               /\ i < j
               /\ tree.nodes[n].ids[i].pos = {}
               /\ tree.nodes[n].ids[j].pos = {0}
               /\ Len(tree.nodes[n].contents) >= 1

-----------------------------------------------------------------------------
\* the segment an insert anchored at append_id places its entry in
TargetSegment(t, append_id) == LookupInsertionPoint(t, append_id).node_id

\* the tree `after` is `before` with the over-long segment seg split in two
\* as the claim says, the new segment having node id new
SplitAtMidpoint(before, after, seg, new) ==
    LET ids == before.nodes[seg].ids
        contents == before.nodes[seg].contents
        n == Len(ids)
        mid == n \div 2
        cut == IF \E j \in (mid + 1)..n : ids[j].pos # {}
               THEN The(ids[CHOOSE j \in (mid + 1)..n :
                               /\ ids[j].pos # {}
                               /\ \A k \in (mid + 1)..(j - 1) : ids[k].pos = {}].pos)
               ELSE Len(contents)
        c == The(before.nodes[seg].parent)
    IN  /\ new \notin DOMAIN before.nodes
        /\ DOMAIN after.nodes = DOMAIN before.nodes \cup {new}
        \* the original keeps the first floor(n/2) identities
        /\ after.nodes[seg].ids = SubSeq(ids, 1, mid)
        /\ after.nodes[seg].contents = SubSeq(contents, 1, cut)
        \* the new segment, directly after it, receives the rest, rebased
        /\ after.nodes[seg].next = new
        /\ after.nodes[new].prev = seg
        /\ after.nodes[new].next = before.nodes[seg].next
        /\ after.nodes[new].kind = before.nodes[seg].kind
        /\ after.nodes[new].parent = before.nodes[seg].parent
        /\ Len(after.nodes[new].ids) = n - mid
        /\ \A i \in 1..(n - mid) :
               /\ after.nodes[new].ids[i].id = ids[mid + i].id
               /\ after.nodes[new].ids[i].pos =
                      (IF ids[mid + i].pos = {} THEN {}
                       ELSE {The(ids[mid + i].pos) - cut})
        /\ (\E i \in 1..(n - mid) : after.nodes[new].ids[i].pos # {}) =>
               (\E i \in 1..(n - mid) :
                    /\ after.nodes[new].ids[i].pos = {0}
                    /\ \A k \in 1..(i - 1) : after.nodes[new].ids[k].pos = {})
        /\ after.nodes[new].contents = SubSeq(contents, cut + 1, Len(contents))
        \* the sequence as a whole reads as before
        /\ [i \in 1..Len(SeqIds(after, c)) |->
               [id |-> SeqIds(after, c)[i].id, live |-> SeqIds(after, c)[i].pos # {}]]
             = [i \in 1..Len(SeqIds(before, c)) |->
                   [id |-> SeqIds(before, c)[i].id,
                    live |-> SeqIds(before, c)[i].pos # {}]]
        /\ SeqContents(after, c) = SeqContents(before, c)
        /\ FlatOf(after, c) = FlatOf(before, c)

(* C35: when an insert makes a segment's ids list of length n exceed       *)
(* SPLIT_LEN, the segment is split at the ids midpoint: the original keeps *)
(* the first floor(n/2) identities, a new segment linked immediately after *)
(* it receives the rest, contents are cut at the first live position at or *)
(* after the midpoint (the end of contents if none) with the moved         *)
(* positions rebased to start at 0, and the sequence's overall identity    *)
(* order, liveness and content are unchanged.                              *)
C35_SplitAtMidpoint ==
    ~crashed =>
        \A append_id \in Known(tree) :
            LET Split35(r, unsplit, seg) ==
                    (/\ r.res = "Ok"
                     /\ Len(tree.nodes[seg].ids) + 1 > splitLen) =>
                        /\ unsplit.res = "Ok"
                        /\ Len(unsplit.t.nodes[seg].ids) =
                               Len(tree.nodes[seg].ids) + 1
                        /\ SplitAtMidpoint(unsplit.t, r.t, seg, tree.next_node)
            IN  /\ \A character \in WideChars :
                       Split35(InsertCharacter(tree, append_id, MaxId + 1,
                                               character, splitLen, joinLen),
                               InsertCharacter(tree, append_id, MaxId + 1,
                                               character, SPLIT_LEN, joinLen),
                               TargetSegment(tree, append_id))
                /\ \A value \in {ValueTrue, ValueInt(1)} :
                       Split35(InsertListItem(tree, append_id, MaxId + 1,
                                              value, splitLen, joinLen),
                               InsertListItem(tree, append_id, MaxId + 1,
                                              value, SPLIT_LEN, joinLen),
                               TargetSegment(tree, append_id))

\* a full segment whose entry at the midpoint will be a tombstone followed
\* by a live entry, so that the cut falls on that live entry's position
\* and not on the midpoint's own
C35_Witness ==
    /\ ~crashed
    /\ last.op = "delete_character" /\ ~last.noop
    /\ \E append_id \in Known(tree) :
           LET r == InsertCharacter(tree, append_id, MaxId + 1, "e2",
                                    splitLen, joinLen)
               seg == TargetSegment(tree, append_id)
           IN  /\ r.res = "Ok"
               /\ Len(tree.nodes[seg].ids) = splitLen
               /\ Len(Segments(r.t, The(tree.nodes[seg].parent))) = 2
               /\ r.t.nodes[tree.next_node].ids[1].pos = {}
               /\ r.t.nodes[tree.next_node].ids[2].pos = {0}
               /\ Len(r.t.nodes[seg].contents) >= 1

-----------------------------------------------------------------------------
\* the collection nodes other than the root that have no parent
Parentless(t) ==
    {n \in DOMAIN t.nodes :
        /\ t.nodes[n].kind \in {"Object", "String", "Array"}
        /\ n # RootNode(t)
        /\ t.nodes[n].parent = {}}

OrphansExact(t) == t.orphans = Parentless(t)

\* the node a collection value names when the call is made, as a set
Named(t, value) ==
    IF IsRef(value) /\ IdToNode(t, value.v) # {} THEN IdToNode(t, value.v) ELSE {}

\* the collection node a child slot holds, as a set
HeldBy(child) ==
    IF child # {} /\ The(child).tag = "Collection" THEN {The(child).v} ELSE {}

\* the child object_assign displaces: the value the key had
DisplacedByAssign(t, object, key) ==
    IF key \in DOMAIN t.nodes[t.id_to_node[object]].items
    THEN HeldBy({t.nodes[t.id_to_node[object]].items[key]})
    ELSE {}

(* C36: at every reachable state the orphan set is exactly the set of      *)
(* collection nodes other than the root that have no parent: construct_*   *)
(* adds the new collection to it, a successful reparent (object_assign or  *)
(* insert_list_item of a collection) removes it, displacement by           *)
(* object_assign or delete_list_item adds it back, and delete_orphans      *)
(* empties it.                                                             *)
C36_OrphanSetExact ==
    ~crashed =>
        /\ OrphansExact(tree)
        /\ \A id \in Fresh(tree) \cup {MaxId + 1}, kind \in RootKinds :
               LET Added(r) ==
                       /\ r.res = "Ok"
                       /\ OrphansExact(r.t)
                       /\ r.t.orphans = tree.orphans \cup {r.t.id_to_node[id]}
                       /\ r.t.id_to_node[id] \notin tree.orphans
                       /\ r.t.nodes[r.t.id_to_node[id]].kind = kind
               IN  Added(CASE kind = "Object" -> ConstructObject(tree, id)
                           [] kind = "String" -> ConstructString(tree, id)
                           [] OTHER -> ConstructArray(tree, id))
        /\ \A object \in Known(tree), key \in Keys, value \in ArgValues :
               LET Assigned(r) ==
                       r.res = "Ok" =>
                           /\ OrphansExact(r.t)
                           /\ r.t.orphans =
                                  (tree.orphans \ Named(tree, value))
                                      \cup DisplacedByAssign(tree, object, key)
                           /\ Named(tree, value) \subseteq tree.orphans
               IN  Assigned(ObjectAssign(tree, object, key, value))
        /\ \A append_id \in Known(tree), value \in ArgValues :
               LET Inserted(r) ==
                       r.res = "Ok" =>
                           /\ OrphansExact(r.t)
                           /\ r.t.orphans = tree.orphans \ Named(tree, value)
                           /\ Named(tree, value) \subseteq tree.orphans
               IN  Inserted(InsertListItem(tree, append_id, MaxId + 1, value,
                                           splitLen, joinLen))
        /\ \A id \in Known(tree) :
               LET Deleted(r, taken) ==
                       r.res = "Ok" =>
                           /\ OrphansExact(r.t)
                           /\ r.t.orphans = tree.orphans \cup HeldBy(taken.child)
               IN  Deleted(DeleteListItem(tree, id),
                           SeqDelete(tree, id, "ArraySegment"))
        /\ LET Swept(r) == r.res = "Ok" => (r.t.orphans = {} /\ OrphansExact(r.t))
           IN  Swept(DeleteOrphans(tree))

\* a collection that was constructed, put under a parent and displaced
\* again is back in the orphan set, while another collection has a parent
C36_Witness ==
    /\ ~crashed
    /\ last.op \in {"object_assign", "delete_list_item"}
    /\ last.res = "Ok" /\ IsRef(last.val)
    /\ Cardinality(tree.orphans) >= 1
    /\ tree.id_to_node[last.val.v] \in tree.orphans
    /\ \E n \in DOMAIN tree.nodes :
           /\ tree.nodes[n].kind \in {"Object", "String", "Array"}
           /\ tree.nodes[n].parent # {}
    /\ OrphansExact(tree)

-----------------------------------------------------------------------------
(* C37: insert_list_item with the value Unset returns success and inserts  *)
(* nothing: the tree is unchanged and the new identity is not registered   *)
(* (a later insert may use it and anchoring on it gives UnknownId) - for   *)
(* every anchor and every new identity, including an unknown anchor and an *)
(* identity already in use.                                                *)
C37_UnsetInsertsNothing ==
    ~crashed =>
        \A append_id \in ArgIds \cup {MaxId + 1}, id \in ArgIds \cup {MaxId + 1} :
            LET Nothing(r) ==
                    /\ r.res = "Ok"
                    /\ r.t = tree
                    /\ GetType(r.t, id) = GetType(tree, id)
                    /\ id \notin DOMAIN tree.id_to_node =>
                           /\ InsertListItem(r.t, id, MaxId + 2, ValueTrue,
                                             splitLen, joinLen).res = "UnknownId"
                           /\ \A anchor \in Known(tree) :
                                  InsertListItem(r.t, anchor, id, ValueTrue,
                                                 splitLen, joinLen).res
                                      # "DuplicateId"
            IN  Nothing(InsertListItem(tree, append_id, id, ValueUnset,
                                       splitLen, joinLen))

\* an insert_list_item has just returned success without changing a tree
\* that holds an array with a live entry, and the identity not yet in use
\* can still be inserted into that array
C37_Witness ==
    /\ ~crashed
    /\ last.op = "insert_list_item" /\ last.res = "Ok" /\ last.noop
    /\ \E n \in SegmentNodes(tree) :
           /\ tree.nodes[n].kind = "ArraySegment"
           /\ \E i \in 1..Len(tree.nodes[n].ids) : tree.nodes[n].ids[i].pos # {}
    /\ \E anchor \in Known(tree), id \in Fresh(tree) :
           InsertListItem(tree, anchor, id, ValueTrue, splitLen, joinLen).res = "Ok"

-----------------------------------------------------------------------------
\* the outcome is a TreeError
IsError(res) == res \notin {"Ok", "Panic"}

(* C38: every tree primitive that returns an error leaves the tree exactly *)
(* as it was before the call - identity map, nodes, parent links, orphan   *)
(* set and node-index counter - in particular object_assign failing with   *)
(* UnexpectedNodeType because its target identity is not an object while   *)
(* the value is an orphan collection, insert_list_item of an orphan        *)
(* collection failing on a duplicate new identity, and construct_string /  *)
(* construct_array failing with DuplicateId.                               *)
C38_ErrorsLeaveTreeUnchanged ==
    IsError(last.res) => last.noop

\* C38, the first case named: object_assign of an orphan collection to a
\* target that is not an object fails with UnexpectedNodeType and changes
\* nothing
C38_Aux_AssignToNonObject ==
    ~crashed =>
        \A object \in Known(tree), key \in Keys, value \in ArgValues :
            (/\ Named(tree, value) # {}
             /\ Named(tree, value) \subseteq tree.orphans
             /\ ObjectAssign(tree, object, key, value).res = "UnexpectedNodeType")
                => ObjectAssign(tree, object, key, value).t = tree

\* C38, the second case named: insert_list_item of an orphan collection
\* under an identity in use fails with DuplicateId and changes nothing
C38_Aux_InsertDuplicate ==
    ~crashed =>
        \A append_id \in Known(tree), id \in Known(tree), value \in ArgValues :
            LET r == InsertListItem(tree, append_id, id, value, splitLen, joinLen)
            IN  (/\ Named(tree, value) # {}
                 /\ Named(tree, value) \subseteq tree.orphans
                 /\ r.res = "DuplicateId")
                    => r.t = tree

\* C38, the third case named: construct_string and construct_array of an
\* identity in use fail with DuplicateId and change nothing
C38_Aux_ConstructDuplicate ==
    ~crashed =>
        \A id \in Known(tree) :
            /\ ConstructString(tree, id) = R(tree, "DuplicateId", ValueUnset)
            /\ ConstructArray(tree, id) = R(tree, "DuplicateId", ValueUnset)

\* what the three cases change: the value has left the orphan set and has
\* the target (the anchor's array) as its parent, nothing else; the counter
\* has advanced by one, nothing else
C38_Aux_WhatChanges ==
    ~crashed =>
        /\ \A object \in Known(tree), key \in Keys, value \in ArgValues :
               LET r == ObjectAssign(tree, object, key, value)
               IN  (IsError(r.res) /\ r.t # tree) =>
                       /\ r.res = "UnexpectedNodeType"
                       /\ Named(tree, value) \subseteq tree.orphans
                       /\ r.t = [tree EXCEPT
                                    !.orphans = @ \ Named(tree, value),
                                    !.nodes[The(Named(tree, value))].parent =
                                        AssignTarget(tree, object)]
        /\ \A append_id \in Known(tree), id \in ArgIds, value \in ArgValues :
               LET r == InsertListItem(tree, append_id, id, value, splitLen, joinLen)
               IN  (IsError(r.res) /\ r.t # tree) =>
                       /\ r.res = "DuplicateId"
                       /\ Named(tree, value) \subseteq tree.orphans
                       /\ r.t = [tree EXCEPT
                                    !.orphans = @ \ Named(tree, value),
                                    !.nodes[The(Named(tree, value))].parent =
                                        InsertTarget(tree, append_id)]
        /\ \A id \in Known(tree) :
               /\ ConstructString(tree, id) = R(NextId(tree), "DuplicateId", ValueUnset)
               /\ ConstructArray(tree, id) = R(NextId(tree), "DuplicateId", ValueUnset)

\* every other error leaves the tree as it was: those of construct_object,
\* insert_character, delete_character and delete_list_item, and those of
\* object_assign and insert_list_item outside the two cases
C38_Aux_OtherErrorsUnchanged ==
    ~crashed =>
        LET Same(r) == IsError(r.res) => r.t = tree
        IN  /\ \A id \in ArgIds : Same(ConstructObject(tree, id))
            /\ \A append_id \in ArgIds, id \in ArgIds, c \in Chars :
                   Same(InsertCharacter(tree, append_id, id, c, splitLen, joinLen))
            /\ \A id \in ArgIds :
                   Same(DeleteCharacter(tree, id)) /\ Same(DeleteListItem(tree, id))
            /\ \A object \in ArgIds, key \in Keys, value \in ArgValues :
                   ObjectAssign(tree, object, key, value).res # "UnexpectedNodeType"
                       => Same(ObjectAssign(tree, object, key, value))
            /\ \A append_id \in ArgIds, id \in ArgIds, value \in ArgValues :
                   InsertListItem(tree, append_id, id, value, splitLen, joinLen).res
                           # "DuplicateId"
                       => Same(InsertListItem(tree, append_id, id, value,
                                              splitLen, joinLen))

-----------------------------------------------------------------------------
\* the child slots of node p that hold the collection node n: the keys of an
\* object, the (segment, contents index) pairs of an array
SlotsHolding(t, p, n) ==
    CASE t.nodes[p].kind = "Object" ->
             {k \in DOMAIN t.nodes[p].items : t.nodes[p].items[k] = ChildCollection(n)}
      [] t.nodes[p].kind = "Array" ->
             UNION {{<<s, i>> : i \in {j \in 1..Len(t.nodes[s].contents) :
                                          t.nodes[s].contents[j] = ChildCollection(n)}} :
                       s \in SeqRange(Segments(t, p))}
      [] OTHER -> {}

\* every collection with a parent is held by exactly one slot of it, and
\* the parent is an object or an array
Backed(t) ==
    \A n \in DOMAIN t.nodes :
        (t.nodes[n].kind \in {"Object", "String", "Array"} /\ t.nodes[n].parent # {}) =>
            /\ The(t.nodes[n].parent) \in DOMAIN t.nodes
            /\ t.nodes[The(t.nodes[n].parent)].kind \in {"Object", "Array"}
            /\ Cardinality(SlotsHolding(t, The(t.nodes[n].parent), n)) = 1

(* C39: parent links are backed by child slots: at every reachable state,  *)
(* every collection node whose parent is P is held by exactly one slot of  *)
(* P - one map value if P is an object, one live entry of one of P's       *)
(* segments if P is an array - and P is always an object or an array,      *)
(* never a string or a segment.                                            *)
C39_ParentLinksBacked ==
    ~crashed => Backed(tree)

\* C39 of the calls that do what they report: a call that succeeds, or that
\* fails and leaves the tree as it was, keeps every parent link backed
C39_Aux_SoundCallsKeepBacked ==
    [][(/\ Backed(tree)
        /\ ~crashed'
        /\ IsError(last'.res) => last'.noop) => Backed(tree')]_vars

\* C39 of the failing calls that change the tree: the value of the failing
\* object_assign or insert_list_item is the one collection that loses its
\* backing
C39_Aux_OnlyFailedValueUnbacked ==
    [][(/\ Backed(tree)
        /\ ~crashed'
        /\ ~Backed(tree')) =>
           /\ last'.op \in {"object_assign", "insert_list_item"}
           /\ IsError(last'.res) /\ ~last'.noop
           /\ \E n \in tree.orphans :
                  /\ tree'.nodes[n].parent # {}
                  /\ Backed([tree' EXCEPT !.nodes[n].parent = {}])]_vars

-----------------------------------------------------------------------------
(* One sequence filled until it splits, on a build with SPLIT_LEN scaled   *)
(* to JoinSplitLen and JOIN_LEN scaled with it (JOIN_LEN = SPLIT_LEN / 2   *)
(* - 1, as 511 = 1024 / 2 - 1), so that JOIN_LEN is not 0.                 *)

JoinIds == 0..MaxJoinId

\* identities are opaque to the tree: of those not in use the least stands
\* for all
FreshJoinId(t) == CHOOSE i \in JoinIds \ DOMAIN t.id_to_node :
                      \A j \in JoinIds \ DOMAIN t.id_to_node : i <= j

\* a primitive call of a client that makes up to MaxJoinSteps calls
StepLong(op, r) ==
    /\ ~crashed
    /\ steps < MaxJoinSteps
    /\ tree' = r.t
    /\ last' = Call(op, r)
    /\ crashed' = (r.res = "Panic")
    /\ steps' = steps + 1
    /\ UNCHANGED <<splitLen, joinLen, opsetVars, docVars>>

InitJoin ==
    /\ \E kind \in {"String", "Array"} : tree = NewWithRoot(kind, 0)
    /\ last = NoCall
    /\ steps = 0
    /\ crashed = FALSE
    /\ splitLen = JoinSplitLen
    /\ joinLen = (JoinSplitLen \div 2) - 1
    /\ log = New(InitialState, 0) /\ received = {} /\ arrival = NoArrival
    /\ opCrashed = FALSE
    /\ batches = NoBatches /\ docs = NoDocs

NextJoin ==
    \/ \E append_id \in JoinIds \cap DOMAIN tree.id_to_node :
           /\ JoinIds \ DOMAIN tree.id_to_node # {}
           /\ tree.nodes[tree.id_to_node[tree.root]].kind = "String"
           /\ StepLong("insert_character",
                       InsertCharacter(tree, append_id, FreshJoinId(tree), "a",
                                       splitLen, joinLen))
    \/ \E id \in JoinIds \cap DOMAIN tree.id_to_node :
           /\ tree.nodes[tree.id_to_node[tree.root]].kind = "String"
           /\ StepLong("delete_character", DeleteCharacter(tree, id))
    \/ \E append_id \in JoinIds \cap DOMAIN tree.id_to_node :
           /\ JoinIds \ DOMAIN tree.id_to_node # {}
           /\ tree.nodes[tree.id_to_node[tree.root]].kind = "Array"
           /\ StepLong("insert_list_item",
                       InsertListItem(tree, append_id, FreshJoinId(tree), ValueTrue,
                                      splitLen, joinLen))
    \/ \E id \in JoinIds \cap DOMAIN tree.id_to_node :
           /\ tree.nodes[tree.id_to_node[tree.root]].kind = "Array"
           /\ StepLong("delete_list_item", DeleteListItem(tree, id))

SpecJoin == InitJoin /\ [][NextJoin]_vars

\* an insert on the build as it is and on a build whose consider_join does
\* nothing (no length is below a JOIN_LEN of 0) come to the same; the new
\* identity's segment is there, no node is gone, and the sequence has the
\* segments it had, and one more when the insert went into a full one
NoJoin(t, r, unjoined, append_id, id) ==
    r.res = "Ok" =>
        /\ r.t = unjoined.t
        /\ IdToNode(r.t, id) # {}
        /\ The(IdToNode(r.t, id)) \in DOMAIN r.t.nodes
        /\ DOMAIN t.nodes \subseteq DOMAIN r.t.nodes
        /\ \A c \in Containers(t) :
               /\ c \in Containers(r.t)
               /\ Len(Segments(r.t, c)) =
                      Len(Segments(t, c)) +
                          (IF /\ TargetSegment(t, append_id) \in SeqRange(Segments(t, c))
                              /\ Len(t.nodes[TargetSegment(t, append_id)].ids)
                                     = splitLen
                           THEN 1 ELSE 0)

(* C40: in every reachable sequence that has more than one segment, each   *)
(* segment's ids list holds at least floor((SPLIT_LEN+1)/2) = 512          *)
(* identities, which is not below JOIN_LEN = 511; therefore consider_join  *)
(* never merges two segments in any reachable state, and an insert never   *)
(* removes the segment it has just inserted into.                          *)
C40_SegmentsNeverJoin ==
    ~crashed =>
        /\ (SPLIT_LEN + 1) \div 2 = 512 /\ JOIN_LEN = 511
        /\ JOIN_LEN = (SPLIT_LEN \div 2) - 1
        /\ (splitLen + 1) \div 2 >= joinLen
        /\ \A c \in Containers(tree) :
               Len(Segments(tree, c)) > 1 =>
                   \A i \in 1..Len(Segments(tree, c)) :
                       Len(tree.nodes[Segments(tree, c)[i]].ids)
                           >= (splitLen + 1) \div 2
        /\ \A n \in SegmentNodes(tree) \cup Containers(tree), rightward \in BOOLEAN :
               ConsiderJoin(tree, n, rightward, joinLen, splitLen) =
                   [t |-> tree, panic |-> FALSE]
        /\ \A append_id \in JoinIds \cap DOMAIN tree.id_to_node :
               /\ NoJoin(tree,
                         InsertCharacter(tree, append_id, MaxJoinId + 1, "a",
                                         splitLen, joinLen),
                         InsertCharacter(tree, append_id, MaxJoinId + 1, "a",
                                         splitLen, 0),
                         append_id, MaxJoinId + 1)
               /\ NoJoin(tree,
                         InsertListItem(tree, append_id, MaxJoinId + 1, ValueTrue,
                                        splitLen, joinLen),
                         InsertListItem(tree, append_id, MaxJoinId + 1, ValueTrue,
                                        splitLen, 0),
                         append_id, MaxJoinId + 1)

\* a sequence has been split in two and a call has been made since; one of
\* its segments holds no more than the least a split leaves, and JOIN_LEN
\* is not 0
C40_Witness ==
    /\ ~crashed
    /\ joinLen >= 1
    /\ steps > splitLen + 1
    /\ \E c \in Containers(tree) :
           /\ Len(Segments(tree, c)) = 2
           /\ \E i \in 1..2 :
                  Len(tree.nodes[Segments(tree, c)[i]].ids) = (splitLen + 1) \div 2
           /\ \E i \in 1..Len(SeqIds(tree, c)) : SeqIds(tree, c)[i].pos = {}

=============================================================================
